---------------------------- MODULE Spec2Model ----------------------------
(***************************************************************************)
(* Model of the order extraction, grouping and sorting engine of           *)
(* src/order_processor.py: group_label_with_packing_slips, the per-cluster *)
(* loop of process_pdfs (duplicate tracking), sort_orders and the output   *)
(* sequencing of process_pdfs.                                             *)
(*                                                                         *)
(* An order is a Python dict; two orders with equal contents are still two *)
(* objects.  The model identifies an order with its position in            *)
(* all_orders (its reference), and every bucket holds references.          *)
(***************************************************************************)
EXTENDS Integers, Sequences, FiniteSets, TLC

(***************************************************************************)
(* Values                                                                  *)
(***************************************************************************)

\* Python's None.  extract_order_id and extract_tracking_number return None
\* or a non-empty match of \d+ / [A-Za-z0-9]+, so this string is no match.
None == "<None>"

\* The skus of the model, listed in Python's string order.
SKUS == <<"T1", "T2">>

SkuSet == {SKUS[k] : k \in 1..Len(SKUS)}

SkuRank(s) == CHOOSE k \in 1..Len(SKUS) : SKUS[k] = s

\* `count >= 100` of sort_orders and process_pdfs.
HIGH_QTY_MIN == 100

\* `sku_occurrences[...] >= 5` of sort_orders.
WAREHOUSE_MIN == 5

\* `if sku_counts[sku] >= 5:` of the warehouse file.
LABEL_COUNT_MIN == 5

Item(s, q) == [sku |-> s, qty |-> q]

(***************************************************************************)
(* Sequence helpers                                                        *)
(***************************************************************************)

Range(s) == {s[k] : k \in 1..Len(s)}

Reverse(s) == [k \in 1..Len(s) |-> s[Len(s) + 1 - k]]

\* How many times x occurs in s.
Occurrences(s, x) == Cardinality({k \in 1..Len(s) : s[k] = x})

\* The function f itself, with its values computed once: without the
\* comparison the values of a function are computed again at each
\* application.
Table(f) == IF f = f THEN f ELSE f

\* [0, 1, ..., n-1] + 1: the references of a batch of n orders.
Indices(n) == [k \in 1..n |-> k]

(***************************************************************************)
(* list.sort: a stable ascending sort by key (binary insertion, which is   *)
(* what CPython's sort does on short lists, inserts each element after the *)
(* elements that do not exceed it).  key is a function on the elements.    *)
(***************************************************************************)

\* An insertion that is not stable: x goes before the elements equal to it.
InsertBeforeEquals(s, x, key) ==
    LET p == Cardinality({k \in 1..Len(s) : key[s[k]] < key[x]})
    IN  SubSeq(s, 1, p) \o <<x>> \o SubSeq(s, p + 1, Len(s))

\* s is sorted ascending by key; x goes after every element with key <= key[x].
InsertAfterEquals(s, x, key) ==
    LET p == Cardinality({k \in 1..Len(s) : key[s[k]] <= key[x]})
    IN  SubSeq(s, 1, p) \o <<x>> \o SubSeq(s, p + 1, Len(s))

\* The insertions of s[lo..hi] into acc, left to right.  The range is halved
\* and Len(acc) is read first only to keep the evaluation shallow (acc is
\* computed before the next insertion starts): the elements are inserted in
\* list order either way.
RECURSIVE SortRange(_, _, _, _, _)
SortRange(s, lo, hi, acc, key) ==
    IF Len(acc) < 0 \/ lo > hi THEN acc
    ELSE IF lo = hi THEN InsertAfterEquals(acc, s[lo], key)
    ELSE LET mid == (lo + hi) \div 2
         IN  SortRange(s, mid + 1, hi, SortRange(s, lo, mid, acc, key), key)

\* lst.sort(key=key)
list_sort(s, key) == SortRange(s, 1, Len(s), <<>>, key)

\* A descending sort that reverses only the result: equal keys come out in
\* reverse order.
list_sort_NoPreReverse(s, key) == Reverse(list_sort(s, key))

\* A sort that forgets reverse=True: ascending.
list_sort_reverse_Ascending(s, key) == list_sort(s, key)

\* lst.sort(key=key, reverse=True): CPython reverses the list, sorts it
\* ascending and reverses the result, which keeps equal keys in their
\* original order.
list_sort_reverse(s, key) == Reverse(list_sort(Reverse(s), key))

(***************************************************************************)
(* sort_orders                                                             *)
(***************************************************************************)

\* Python's order on the (sku, qty) tuples: by sku, then by qty.
TupleLess(u, t) ==
    \/ SkuRank(u[1]) < SkuRank(t[1])
    \/ u[1] = t[1] /\ u[2] < t[2]

\* The fingerprint without the sort: the items in slip order.
fingerprint_Unsorted(order) ==
    [k \in 1..Len(order.items) |-> <<order.items[k].sku, order.items[k].qty>>]

\* tuple(sorted([(item['sku'], item['qty']) for item in order['items']]))
fingerprint(order) ==
    LET tuples == [k \in 1..Len(order.items) |->
                      <<order.items[k].sku, order.items[k].qty>>]
        key == [t \in Range(tuples) |->
                      Cardinality({u \in Range(tuples) : TupleLess(u, t)})]
    IN  list_sort(tuples, key)

\* sku_occurrences: per sku, the single-item orders with qty_total = 1
\* (a defaultdict(int): a sku never counted reads 0).
sku_occurrences(orders) ==
    Table([s \in SkuSet |->
        Cardinality({k \in 1..Len(orders) :
            /\ orders[k].qty_total = 1
            /\ Len(orders[k].items) = 1
            /\ orders[k].items[1].sku = s})])

\* The keys of high_qty_skus.
high_qty_keys(orders) ==
    {s \in SkuSet : sku_occurrences(orders)[s] >= HIGH_QTY_MIN}

\* high_qty_skus[sku]['count'] and ['is_hazmat']: the count, and the
\* is_hazmat of the first order whose only item has that sku.
high_qty_info(orders, s) ==
    LET first == CHOOSE k \in 1..Len(orders) :
                    /\ Len(orders[k].items) = 1 /\ orders[k].items[1].sku = s
                    /\ \A m \in 1..(k - 1) :
                          ~(Len(orders[m].items) = 1 /\ orders[m].items[1].sku = s)
    IN  [count |-> sku_occurrences(orders)[s],
         is_hazmat |-> orders[first].is_hazmat]

\* order_fingerprints: per fingerprint, the references of the orders with
\* it, ascending.  fps[k] is the fingerprint of order k.
order_fingerprints(fps) ==
    Table([f \in Range(fps) |->
              SelectSeq(Indices(Len(fps)), LAMBDA k : fps[k] = f)])

\* fingerprint_counts
fingerprint_counts(fps) ==
    LET ofp == order_fingerprints(fps)
    IN  Table([f \in DOMAIN ofp |-> Len(ofp[f])])

\* The buckets before the loop of sort_orders.
EmptyBuckets ==
    [warehouse_hazmat |-> <<>>, warehouse_ground |-> <<>>,
     packingroom_hazmat_single_item |-> <<>>,
     packingroom_hazmat_single_sku |-> <<>>,
     packingroom_hazmat_multi_sku |-> <<>>,
     packingroom_ground_single_item |-> <<>>,
     packingroom_ground_single_sku |-> <<>>,
     packingroom_ground_multi_sku |-> <<>>,
     high_qty_orders |-> [s \in SkuSet |-> <<>>]]

\* A packing-room classification that tests `len(order['items']) <= 1`.
bucket_of_EmptyIsSingle(order, occ, high) ==
    IF /\ Len(order.items) = 1 /\ order.qty_total = 1
       /\ order.items[1].sku \in high
    THEN "high_qty_orders"
    ELSE IF /\ Len(order.items) = 1 /\ order.qty_total = 1
            /\ occ[order.items[1].sku] >= WAREHOUSE_MIN
    THEN (IF order.is_hazmat THEN "warehouse_hazmat" ELSE "warehouse_ground")
    ELSE IF order.is_hazmat
    THEN (IF Len(order.items) <= 1
          THEN (IF order.qty_total = 1 THEN "packingroom_hazmat_single_item"
                ELSE "packingroom_hazmat_single_sku")
          ELSE "packingroom_hazmat_multi_sku")
    ELSE (IF Len(order.items) <= 1
          THEN (IF order.qty_total = 1 THEN "packingroom_ground_single_item"
                ELSE "packingroom_ground_single_sku")
          ELSE "packingroom_ground_multi_sku")

\* A classification without the high-qty test of lines 381-387.
bucket_of_NoHighQty(order, occ, high) ==
    IF /\ Len(order.items) = 1 /\ order.qty_total = 1
       /\ occ[order.items[1].sku] >= WAREHOUSE_MIN
    THEN (IF order.is_hazmat THEN "warehouse_hazmat" ELSE "warehouse_ground")
    ELSE IF order.is_hazmat
    THEN (IF Len(order.items) = 1
          THEN (IF order.qty_total = 1 THEN "packingroom_hazmat_single_item"
                ELSE "packingroom_hazmat_single_sku")
          ELSE "packingroom_hazmat_multi_sku")
    ELSE (IF Len(order.items) = 1
          THEN (IF order.qty_total = 1 THEN "packingroom_ground_single_item"
                ELSE "packingroom_ground_single_sku")
          ELSE "packingroom_ground_multi_sku")

\* Which list one iteration of the loop extends, decided on order i alone.
bucket_of(order, occ, high) ==
    IF /\ Len(order.items) = 1 /\ order.qty_total = 1
       /\ order.items[1].sku \in high
    THEN "high_qty_orders"
    ELSE IF /\ Len(order.items) = 1 /\ order.qty_total = 1
            /\ occ[order.items[1].sku] >= WAREHOUSE_MIN
    THEN (IF order.is_hazmat THEN "warehouse_hazmat" ELSE "warehouse_ground")
    ELSE IF order.is_hazmat
    THEN (IF Len(order.items) = 1
          THEN (IF order.qty_total = 1 THEN "packingroom_hazmat_single_item"
                ELSE "packingroom_hazmat_single_sku")
          ELSE "packingroom_hazmat_multi_sku")
    ELSE (IF Len(order.items) = 1
          THEN (IF order.qty_total = 1 THEN "packingroom_ground_single_item"
                ELSE "packingroom_ground_single_sku")
          ELSE "packingroom_ground_multi_sku")

\* A loop without the `continue`: every order appends its whole group.
skipped_Never(fps, ofp, i) == FALSE

\* Whether the loop skips order i: `if i != fingerprint_indices[0]: continue`.
skipped(fps, ofp, i) == i # ofp[fps[i]][1]

\* The body of the loop for an order that is not skipped: the whole
\* fingerprint group is appended to one list.
categorize_order(orders, fps, ofp, occ, high, i, acc) ==
    LET idxs == ofp[fps[i]]
        b == bucket_of(orders[i], occ, high)
    IN  IF b = "high_qty_orders"
        THEN [acc EXCEPT !.high_qty_orders[orders[i].items[1].sku] = @ \o idxs]
        ELSE [acc EXCEPT ![b] = @ \o idxs]

\* `for i, order in enumerate(orders)` over visit[k..]: the orders the loop
\* does not skip, ascending.
RECURSIVE categorize(_, _, _, _, _, _, _, _)
categorize(orders, fps, ofp, occ, high, visit, k, acc) ==
    IF k > Len(visit) THEN acc
    ELSE categorize(orders, fps, ofp, occ, high, visit, k + 1,
            categorize_order(orders, fps, ofp, occ, high, visit[k], acc))

\* sort_orders(orders): the ten lists it returns, as references into orders.
sort_orders(orders) ==
    LET n == Len(orders)
        fps == Table([k \in 1..n |-> fingerprint(orders[k])])
        ofp == order_fingerprints(fps)
        counts == fingerprint_counts(fps)
        occ == sku_occurrences(orders)
        high == high_qty_keys(orders)
        visit == SelectSeq(Indices(n), LAMBDA i : ~skipped(fps, ofp, i))
        b == categorize(orders, fps, ofp, occ, high, visit, 1, EmptyBuckets)
        \* key=lambda x: -sku_occurrences[x['items'][0]['sku']]
        wkey == Table([k \in Range(b.warehouse_hazmat) \cup Range(b.warehouse_ground)
                          |-> 0 - occ[orders[k].items[1].sku]])
        \* get_order_frequency
        fkey == Table([k \in 1..n |-> counts[fps[k]]])
    IN  [warehouse_hazmat |-> list_sort(b.warehouse_hazmat, wkey),
         warehouse_ground |-> list_sort(b.warehouse_ground, wkey),
         packingroom_hazmat_single_item |->
             list_sort_reverse(b.packingroom_hazmat_single_item, fkey),
         packingroom_hazmat_single_sku |->
             list_sort_reverse(b.packingroom_hazmat_single_sku, fkey),
         packingroom_hazmat_multi_sku |->
             list_sort_reverse(b.packingroom_hazmat_multi_sku, fkey),
         packingroom_ground_single_item |->
             list_sort_reverse(b.packingroom_ground_single_item, fkey),
         packingroom_ground_single_sku |->
             list_sort_reverse(b.packingroom_ground_single_sku, fkey),
         packingroom_ground_multi_sku |->
             list_sort_reverse(b.packingroom_ground_multi_sku, fkey),
         high_qty_orders |-> b.high_qty_orders]

\* sorted_orders['warehouse']['all']
warehouse_all(so) == so.warehouse_hazmat \o so.warehouse_ground

\* A packing-room sequence with the ground orders first.
packingroom_all_GroundFirst(so) ==
    so.packingroom_ground_single_item \o so.packingroom_ground_single_sku
    \o so.packingroom_ground_multi_sku \o so.packingroom_hazmat_single_item
    \o so.packingroom_hazmat_single_sku \o so.packingroom_hazmat_multi_sku

\* sorted_orders['packingroom']['all']
packingroom_all(so) ==
    so.packingroom_hazmat_single_item \o so.packingroom_hazmat_single_sku
    \o so.packingroom_hazmat_multi_sku \o so.packingroom_ground_single_item
    \o so.packingroom_ground_single_sku \o so.packingroom_ground_multi_sku

\* The keys of high_qty_skus in dict order: a key is inserted while
\* sku_occurrences.items() is walked, and sku_occurrences holds the skus in
\* the order in which their first counted order occurs.
high_qty_sequence(orders) ==
    LET counted(k) == orders[k].qty_total = 1 /\ Len(orders[k].items) = 1
        firstAt(s) == CHOOSE k \in 1..Len(orders) :
                          /\ counted(k) /\ orders[k].items[1].sku = s
                          /\ \A m \in 1..(k - 1) :
                                ~(counted(m) /\ orders[m].items[1].sku = s)
        high == high_qty_keys(orders)
        key == [s \in high |-> firstAt(s)]
    IN  list_sort(SelectSeq(SKUS, LAMBDA s : s \in high), key)

(***************************************************************************)
(* detect_page_type and group_label_with_packing_slips                     *)
(*                                                                         *)
(* detect_page_type reads a page's text through substring tests on eleven  *)
(* indicators only, and no indicator contains another, so a text is given  *)
(* by the set of indicators that occur in it.  Pages are numbered from 0   *)
(* as in the code: page i is pdf_document[i + 1].                          *)
(***************************************************************************)

packing_slip_indicators ==
    {"Order ID:", "Product Name", "SKU", "Qty Total:", "Packing Slip", "Ship To:"}

label_indicators ==
    {"SHIP FROM:", "DELIVER TO:", "Tracking Number:", "Carrier:", "Service:"}

\* A detection by the counts alone, without the product-listing test.
detect_page_type_CountsOnly(page_text) ==
    IF Cardinality(packing_slip_indicators \cap page_text)
           > Cardinality(label_indicators \cap page_text)
    THEN "packing_slip" ELSE "label"

detect_page_type(page_text) ==
    LET packing_slip_count == Cardinality(packing_slip_indicators \cap page_text)
        label_count == Cardinality(label_indicators \cap page_text)
    IN  IF "Product Name" \in page_text /\ "SKU" \in page_text
        THEN "packing_slip"
        ELSE IF packing_slip_count > label_count THEN "packing_slip"
        ELSE "label"

\* A look-ahead that takes one packing slip at most.
slip_run_end_OneSlip(doc, j) ==
    IF j < Len(doc) /\ detect_page_type(doc[j + 1]) = "packing_slip"
    THEN j + 1 ELSE j

\* The inner `while j < total_pages`: the value of j when it ends.
RECURSIVE slip_run_end(_, _)
slip_run_end(doc, j) ==
    IF j < Len(doc) /\ detect_page_type(doc[j + 1]) = "packing_slip"
    THEN slip_run_end(doc, j + 1)
    ELSE j

VARIABLES
    fn_pc,                       \* "idle", "call" or "returned"
    fn_in,                       \* the function called alone and its arguments
    fn_out                       \* what it returned

fvars == <<fn_pc, fn_in, fn_out>>

VARIABLES
    pdf_document,                \* the pages of the document scanned
    g_pc,                        \* "idle", "scan" or "returned"
    g_i,                         \* i of the scan
    groups,                      \* groups of the scan
    calls,                       \* how many scans were started
    first_groups,                \* what the first scan returned
    first_document               \* the pages when the first scan started

gvars == <<pdf_document, g_pc, g_i, groups, calls, first_groups, first_document>>

\* A call that goes on with the list of the call before.
CallGroup_KeepGroups ==
    /\ g_pc \in {"idle", "returned"} /\ calls < 2
    /\ g_pc' = "scan"
    /\ g_i' = 0
    /\ groups' = groups
    /\ calls' = calls + 1
    /\ first_groups' = IF calls = 1 THEN groups ELSE first_groups
    /\ UNCHANGED <<pdf_document, first_document>>

\* group_label_with_packing_slips(pdf_document) is called: groups = [],
\* i = 0.  The document is scanned twice.
CallGroup ==
    /\ g_pc \in {"idle", "returned"} /\ calls < 2
    /\ g_pc' = "scan"
    /\ g_i' = 0
    /\ groups' = <<>>
    /\ calls' = calls + 1
    /\ first_groups' = IF calls = 1 THEN groups ELSE first_groups
    /\ UNCHANGED <<pdf_document, first_document>>

\* An iteration of the outer loop on a label: the look-ahead, the group
\* when slips were found, and i = j.
ScanLabel ==
    /\ g_pc = "scan" /\ g_i < Len(pdf_document)
    /\ detect_page_type(pdf_document[g_i + 1]) = "label"
    /\ LET j == slip_run_end(pdf_document, g_i + 1)
           packing_slip_indices == [k \in 1..(j - g_i - 1) |-> g_i + k]
       IN  /\ groups' = IF packing_slip_indices # <<>>
                        THEN Append(groups,
                                 [label_index |-> g_i,
                                  packing_slip_indices |-> packing_slip_indices])
                        ELSE groups
           /\ g_i' = j
    /\ UNCHANGED <<pdf_document, g_pc, calls, first_groups, first_document>>

\* An iteration of the outer loop on a packing slip: i += 1.
SkipOrphan ==
    /\ g_pc = "scan" /\ g_i < Len(pdf_document)
    /\ detect_page_type(pdf_document[g_i + 1]) # "label"
    /\ g_i' = g_i + 1
    /\ UNCHANGED <<pdf_document, g_pc, groups, calls, first_groups, first_document>>

\* return groups
ReturnGroups ==
    /\ g_pc = "scan" /\ g_i >= Len(pdf_document)
    /\ g_pc' = "returned"
    /\ UNCHANGED <<pdf_document, g_i, groups, calls, first_groups, first_document>>


(***************************************************************************)
(* process_pdfs                                                            *)
(*                                                                         *)
(* The input folder is a sequence of documents.  A document is given by    *)
(* what the grouping scan and the extraction regexes find in it: the path  *)
(* process_pdfs takes (mode "multi_slip" when the scan found groups,       *)
(* "pair" for the two-page fallback) and, per group or pair, the extracted *)
(* items, qty_total, order id, tracking number, hazmat flag and the number *)
(* of packing slips.                                                       *)
(***************************************************************************)

VARIABLES
    pc,                          \* where process_pdfs is
    pdf_files,                   \* the documents not yet opened
    opened,                      \* how many documents were opened so far
    open_pdfs,                   \* the opened documents that are not closed
    cur_mode,                    \* the path taken for the open document
    cur,                         \* its groups (or pairs) not yet processed
    all_orders,
    all_tracking_numbers,
    duplicate_tracking_numbers,
    duplicate_details,
    total_orders,
    multi_slip_orders,
    max_slips_per_order,
    sorted_orders,               \* the result of sort_orders, as changed later
    hq_todo,                     \* the high_qty_skus items not yet written
    page_number,                 \* order['page_number'], 0 while not set
    output_dir,                  \* whether the output directory was made
    saved,                       \* the documents saved, in order
    result                       \* what process_pdfs returned

pvars == <<pc, pdf_files, opened, open_pdfs, cur_mode, cur, all_orders,
           all_tracking_numbers, duplicate_tracking_numbers, duplicate_details,
           total_orders, multi_slip_orders, max_slips_per_order, sorted_orders,
           hq_todo, page_number, output_dir, saved, result>>

vars == <<pvars, gvars, fvars>>

batchVars == <<all_orders, all_tracking_numbers, duplicate_tracking_numbers,
               duplicate_details, total_orders, multi_slip_orders,
               max_slips_per_order>>

outVars == <<sorted_orders, hq_todo, page_number, saved>>

Max(a, b) == IF a >= b THEN a ELSE b

\* str(x) inside an f-string.
Str(x) == IF x = None THEN "None" ELSE x

\* A detail line that leaves the order id out.
duplicate_detail_NoOrder(tracking_number, order_id) ==
    "Tracking: " \o tracking_number

\* f"Tracking: {tracking_number}, Order: {order_id}"
duplicate_detail(tracking_number, order_id) ==
    "Tracking: " \o tracking_number \o ", Order: " \o Str(order_id)

\* The order_info dict appended to all_orders.
order_info(c, slips, doc) ==
    [items |-> c.items, qty_total |-> c.qty_total, is_hazmat |-> c.is_hazmat,
     order_id |-> c.order_id, tracking_number |-> c.tracking_number,
     num_packing_slips |-> slips, source_pdf |-> doc]

\* A count that takes the orders without a tracking number too.
TrackOrder_CountUntracked(c) ==
    /\ IF c.tracking_number # None /\ c.tracking_number \in all_tracking_numbers
       THEN /\ duplicate_tracking_numbers' =
                   duplicate_tracking_numbers \cup {c.tracking_number}
            /\ duplicate_details' = Append(duplicate_details,
                   duplicate_detail(c.tracking_number, c.order_id))
       ELSE UNCHANGED <<duplicate_tracking_numbers, duplicate_details>>
    /\ all_tracking_numbers' =
           IF c.tracking_number # None
           THEN all_tracking_numbers \cup {c.tracking_number}
           ELSE all_tracking_numbers
    /\ total_orders' = total_orders + 1

\* `if tracking_number:` ... of both paths: the duplicate check and the count.
TrackOrder(c) ==
    IF c.tracking_number # None
    THEN /\ IF c.tracking_number \in all_tracking_numbers
            THEN /\ duplicate_tracking_numbers' =
                        duplicate_tracking_numbers \cup {c.tracking_number}
                 /\ duplicate_details' = Append(duplicate_details,
                        duplicate_detail(c.tracking_number, c.order_id))
            ELSE UNCHANGED <<duplicate_tracking_numbers, duplicate_details>>
         /\ all_tracking_numbers' = all_tracking_numbers \cup {c.tracking_number}
         /\ total_orders' = total_orders + 1
    ELSE UNCHANGED <<all_tracking_numbers, duplicate_tracking_numbers,
                     duplicate_details, total_orders>>

\* An early return placed after os.makedirs.
NoPdfFiles_AfterMakedirs ==
    /\ pc = "start" /\ pdf_files = <<>>
    /\ pc' = "done"
    /\ output_dir' = TRUE
    /\ result' = [success |-> FALSE]
    /\ UNCHANGED <<pdf_files, opened, open_pdfs, cur_mode, cur>>
    /\ UNCHANGED batchVars /\ UNCHANGED outVars /\ UNCHANGED <<gvars, fvars>>

\* `if not pdf_files: return {'success': False}`
NoPdfFiles ==
    /\ pc = "start" /\ pdf_files = <<>>
    /\ pc' = "done"
    /\ result' = [success |-> FALSE]
    /\ UNCHANGED <<pdf_files, opened, open_pdfs, cur_mode, cur, output_dir>>
    /\ UNCHANGED batchVars /\ UNCHANGED outVars /\ UNCHANGED <<gvars, fvars>>

\* os.makedirs(output_dir) and the initialisation of the batch counters.
MakeOutputDir ==
    /\ pc = "start" /\ pdf_files # <<>>
    /\ pc' = "next_pdf"
    /\ output_dir' = TRUE
    /\ UNCHANGED <<pdf_files, opened, open_pdfs, cur_mode, cur, result>>
    /\ UNCHANGED batchVars /\ UNCHANGED outVars /\ UNCHANGED <<gvars, fvars>>

\* fitz.open(input_pdf_path), group_label_with_packing_slips(pdf_document)
\* and the choice between the two paths.
OpenPdf ==
    /\ pc = "next_pdf" /\ pdf_files # <<>>
    /\ opened' = opened + 1
    /\ open_pdfs' = open_pdfs \cup {opened + 1}
    /\ cur_mode' = Head(pdf_files).mode
    /\ cur' = Head(pdf_files).clusters
    /\ pdf_files' = Tail(pdf_files)
    /\ pc' = "in_pdf"
    /\ UNCHANGED <<output_dir, result>>
    /\ UNCHANGED batchVars /\ UNCHANGED outVars /\ UNCHANGED <<gvars, fvars>>

\* fitz.open(input_pdf_path) raises: nothing catches it in process_pdfs, so
\* the call ends there with the exception.
OpenPdfFails ==
    /\ pc = "next_pdf" /\ pdf_files # <<>>
    /\ pc' = "raised"
    /\ UNCHANGED <<pdf_files, opened, open_pdfs, cur_mode, cur, output_dir, result>>
    /\ UNCHANGED batchVars /\ UNCHANGED outVars /\ UNCHANGED <<gvars, fvars>>

\* The document opens, and reading a page of it (get_text in
\* group_label_with_packing_slips) raises: the call ends with the exception
\* and the document stays open.
ScanFails ==
    /\ pc = "next_pdf" /\ pdf_files # <<>>
    /\ opened' = opened + 1
    /\ open_pdfs' = open_pdfs \cup {opened + 1}
    /\ pc' = "raised"
    /\ UNCHANGED <<pdf_files, cur_mode, cur, output_dir, result>>
    /\ UNCHANGED batchVars /\ UNCHANGED outVars /\ UNCHANGED <<gvars, fvars>>

\* One iteration of `for group in label_groups`.
ProcessGroup ==
    /\ pc = "in_pdf" /\ cur_mode = "multi_slip" /\ cur # <<>>
    /\ LET c == Head(cur)
       IN  /\ IF c.num_packing_slips > 1
              THEN /\ multi_slip_orders' = multi_slip_orders + 1
                   /\ max_slips_per_order' =
                          Max(max_slips_per_order, c.num_packing_slips)
              ELSE UNCHANGED <<multi_slip_orders, max_slips_per_order>>
           /\ TrackOrder(c)
           /\ all_orders' = Append(all_orders,
                                   order_info(c, c.num_packing_slips, opened))
    /\ cur' = Tail(cur)
    /\ UNCHANGED <<pc, pdf_files, opened, open_pdfs, cur_mode, output_dir, result>>
    /\ UNCHANGED outVars /\ UNCHANGED <<gvars, fvars>>

\* One iteration of `for i in range(0, total_pages, 2)` with i + 1 < total_pages.
ProcessPair ==
    /\ pc = "in_pdf" /\ cur_mode = "pair" /\ cur # <<>>
    /\ LET c == Head(cur)
       IN  /\ TrackOrder(c)
           /\ all_orders' = Append(all_orders, order_info(c, 1, opened))
    /\ cur' = Tail(cur)
    /\ UNCHANGED <<pc, pdf_files, opened, open_pdfs, cur_mode, output_dir, result,
                   multi_slip_orders, max_slips_per_order>>
    /\ UNCHANGED outVars /\ UNCHANGED <<gvars, fvars>>

\* An end of document that saves what the document gave before the next
\* document is opened.
EndPdf_SavesDocument ==
    /\ pc = "in_pdf" /\ cur = <<>>
    /\ pc' = "next_pdf"
    /\ saved' = Append(saved, [name |-> "packingroom_labels", sku |-> None,
                               count |-> 0, orders |-> Indices(Len(all_orders)),
                               label_counts |-> <<>>])
    /\ UNCHANGED <<pdf_files, opened, open_pdfs, cur_mode, cur, output_dir, result,
                   sorted_orders, hq_todo, page_number>>
    /\ UNCHANGED batchVars /\ UNCHANGED <<gvars, fvars>>

\* processed_files.append(input_pdf_path): the document is left open.
EndPdf ==
    /\ pc = "in_pdf" /\ cur = <<>>
    /\ pc' = "next_pdf"
    /\ UNCHANGED <<pdf_files, opened, open_pdfs, cur_mode, cur, output_dir, result>>
    /\ UNCHANGED batchVars /\ UNCHANGED outVars /\ UNCHANGED <<gvars, fvars>>

\* sorted_orders = sort_orders(all_orders)
SortOrders ==
    /\ pc = "next_pdf" /\ pdf_files = <<>>
    /\ sorted_orders' = sort_orders(all_orders)
    /\ hq_todo' = high_qty_sequence(all_orders)
    /\ page_number' = [k \in 1..Len(all_orders) |-> 0]
    /\ pc' = "high_qty"
    /\ UNCHANGED <<pdf_files, opened, open_pdfs, cur_mode, cur, output_dir,
                   saved, result>>
    /\ UNCHANGED batchVars /\ UNCHANGED <<gvars, fvars>>

\* The list without the single-item orders of sku s.
without_sku(lst, orders, s) ==
    SelectSeq(lst, LAMBDA k :
        Len(orders[k].items) # 1 \/ orders[k].items[1].sku # s)

\* page_number = 1; for order in lst: order['page_number'] = page_number;
\* page_number += 1, for lst[lo..hi] (halved, and pn read first, as in
\* SortRange).
RECURSIVE number_range(_, _, _, _)
number_range(pn, lst, lo, hi) ==
    IF DOMAIN pn = {} \/ lo > hi THEN pn
    ELSE IF lo = hi THEN [pn EXCEPT ![lst[lo]] = lo]
    ELSE LET mid == (lo + hi) \div 2
         IN  number_range(number_range(pn, lst, lo, mid), lst, mid + 1, hi)

\* A numbering that adds 1 before it assigns: the first order gets 2.
number_pages_IncrementFirst(pn, lst) ==
    [k \in DOMAIN pn |->
        IF k \in Range(lst) THEN 1 + (CHOOSE p \in 1..Len(lst) : lst[p] = k)
        ELSE pn[k]]

number_pages(pn, lst) == number_range(pn, lst, 1, Len(lst))

\* A slip on which add_label_count was not called.
NoStamp == <<0, 0>>

\* The stamps of a high-qty file: add_label_count(slip_page, sku,
\* order_count, total_count) on the first slip of every order.
sku_file_stamps(lst, orders) ==
    [p \in 1..Len(lst) |->
        [j \in 1..orders[lst[p]].num_packing_slips |->
            IF j = 1 THEN <<p, Len(lst)>> ELSE NoStamp]]

\* sku_counts: per sku, the single-item orders of the warehouse list.
sku_counts(lst, orders) ==
    Table([s \in SkuSet |->
        Cardinality({p \in 1..Len(lst) :
            /\ Len(orders[lst[p]].items) = 1
            /\ orders[lst[p]].items[1].sku = s})])

\* The stamps of the warehouse file: on the first slip of a single-item
\* order whose sku has LABEL_COUNT_MIN orders or more in the list,
\* (sku_counters[sku], sku_counts[sku]), where sku_counters[sku] is by then
\* the number of such orders of the sku up to this one.
warehouse_stamps(lst, orders) ==
    LET counts == sku_counts(lst, orders)
    IN  [p \in 1..Len(lst) |->
            [j \in 1..orders[lst[p]].num_packing_slips |->
                IF /\ j = 1 /\ Len(orders[lst[p]].items) = 1
                   /\ counts[orders[lst[p]].items[1].sku] >= LABEL_COUNT_MIN
                THEN <<Cardinality({q \in 1..p :
                            /\ Len(orders[lst[q]].items) = 1
                            /\ orders[lst[q]].items[1].sku
                                   = orders[lst[p]].items[1].sku}),
                       counts[orders[lst[p]].items[1].sku]>>
                ELSE NoStamp]]

\* The packing-room file has no such stamp.
no_stamps(lst, orders) ==
    [p \in 1..Len(lst) |->
        [j \in 1..orders[lst[p]].num_packing_slips |-> NoStamp]]

\* One iteration of `for sku, info in high_qty_skus.items()`: the file of the
\* sku, the page numbers of its orders, and the removal of the sku from the
\* warehouse list of the hazmat class of info.
WriteHighQtySku ==
    /\ pc = "high_qty" /\ hq_todo # <<>>
    /\ LET sku == Head(hq_todo)
           info == high_qty_info(all_orders, sku)
           orders == sorted_orders.high_qty_orders[sku]
       IN  IF info.count >= HIGH_QTY_MIN
           THEN /\ page_number' = number_pages(page_number, orders)
                /\ saved' = Append(saved, [name |-> "sku", sku |-> sku,
                                           count |-> info.count, orders |-> orders,
                                           label_counts |->
                                               sku_file_stamps(orders, all_orders)])
                /\ sorted_orders' =
                       IF info.is_hazmat
                       THEN [sorted_orders EXCEPT !.warehouse_hazmat =
                                without_sku(@, all_orders, sku)]
                       ELSE [sorted_orders EXCEPT !.warehouse_ground =
                                without_sku(@, all_orders, sku)]
           ELSE UNCHANGED <<page_number, saved, sorted_orders>>
    /\ hq_todo' = Tail(hq_todo)
    /\ UNCHANGED <<pc, pdf_files, opened, open_pdfs, cur_mode, cur, output_dir, result>>
    /\ UNCHANGED batchVars /\ UNCHANGED <<gvars, fvars>>

\* warehouse_labels.pdf, written when there is a warehouse order.
WriteWarehouse ==
    /\ pc = "high_qty" /\ hq_todo = <<>>
    /\ LET lst == warehouse_all(sorted_orders)
       IN  IF lst # <<>>
           THEN /\ page_number' = number_pages(page_number, lst)
                /\ saved' = Append(saved, [name |-> "warehouse_labels",
                                           sku |-> None, count |-> 0, orders |-> lst,
                                           label_counts |->
                                               warehouse_stamps(lst, all_orders)])
           ELSE UNCHANGED <<page_number, saved>>
    /\ pc' = "packingroom"
    /\ UNCHANGED <<pdf_files, opened, open_pdfs, cur_mode, cur, output_dir, result,
                   sorted_orders, hq_todo>>
    /\ UNCHANGED batchVars /\ UNCHANGED <<gvars, fvars>>

\* The sum of f[lo..hi] (halved, as in SortRange).
RECURSIVE SumRange(_, _, _)
SumRange(f, lo, hi) ==
    IF lo > hi THEN 0
    ELSE IF lo = hi THEN f[lo]
    ELSE LET mid == (lo + hi) \div 2
         IN  SumRange(f, lo, mid) + SumRange(f, mid + 1, hi)

\* What `for item in order['items']: counts[item['sku']]["quantity"] +=
\* item['qty']` adds for sku s.
item_quantity(order, s) ==
    SumRange([m \in 1..Len(order.items) |->
                 IF order.items[m].sku = s THEN order.items[m].qty ELSE 0],
             1, Len(order.items))

\* A section that counts the orders of the whole packing room.
section_rows_AllOrders(lst, orders) ==
    LET skus == {s \in SkuSet : \E k \in 1..Len(orders) :
                    \E m \in 1..Len(orders[k].items) : orders[k].items[m].sku = s}
        quantity == [s \in skus |->
                        SumRange([k \in 1..Len(orders) |-> item_quantity(orders[k], s)],
                                 1, Len(orders))]
        key == [s \in skus |-> Cardinality({u \in skus :
                    \/ quantity[u] > quantity[s]
                    \/ quantity[u] = quantity[s] /\ SkuRank(u) < SkuRank(s)})]
        rows == list_sort(SelectSeq(SKUS, LAMBDA s : s \in skus), key)
    IN  [n \in 1..Len(rows) |-> <<rows[n], quantity[rows[n]]>>]

\* The rows of one section of save_sku_counts_to_csv: the counts of the
\* orders of list lst, then sorted(counts.items(), key=lambda x:
\* (-x[1]["quantity"], x[0])).  A row is (sku, quantity).
section_rows(lst, orders) ==
    LET skus == {s \in SkuSet : \E p \in 1..Len(lst) :
                    \E m \in 1..Len(orders[lst[p]].items) :
                        orders[lst[p]].items[m].sku = s}
        quantity == [s \in skus |->
                        SumRange([p \in 1..Len(lst) |->
                                     item_quantity(orders[lst[p]], s)],
                                 1, Len(lst))]
        \* the keys (-quantity, sku) are all different: the rank of a key
        key == [s \in skus |-> Cardinality({u \in skus :
                    \/ quantity[u] > quantity[s]
                    \/ quantity[u] = quantity[s] /\ SkuRank(u) < SkuRank(s)})]
        rows == list_sort(SelectSeq(SKUS, LAMBDA s : s \in skus), key)
    IN  [n \in 1..Len(rows) |-> <<rows[n], quantity[rows[n]]>>]

\* save_sku_counts_to_csv(sorted_orders['packingroom'], csv_output_path):
\* the six sections in the order written.
save_sku_counts_to_csv(so, orders) ==
    <<section_rows(so.packingroom_hazmat_single_item, orders),
      section_rows(so.packingroom_hazmat_single_sku, orders),
      section_rows(so.packingroom_hazmat_multi_sku, orders),
      section_rows(so.packingroom_ground_single_item, orders),
      section_rows(so.packingroom_ground_single_sku, orders),
      section_rows(so.packingroom_ground_multi_sku, orders)>>

\* packingroom_labels.pdf and packingroom_pick_list.csv, written when there
\* is a packing-room order.
WritePackingroom ==
    /\ pc = "packingroom"
    /\ LET lst == packingroom_all(sorted_orders)
       IN  IF lst # <<>>
           THEN /\ page_number' = number_pages(page_number, lst)
                /\ saved' = saved \o
                       <<[name |-> "packingroom_labels",
                          sku |-> None, count |-> 0, orders |-> lst,
                          label_counts |-> no_stamps(lst, all_orders)],
                         [name |-> "packingroom_pick_list",
                          sku |-> None, count |-> 0, orders |-> <<>>,
                          label_counts |-> <<>>,
                          sections |-> save_sku_counts_to_csv(sorted_orders,
                                                              all_orders)]>>
           ELSE UNCHANGED <<page_number, saved>>
    /\ pc' = "close"
    /\ UNCHANGED <<pdf_files, opened, open_pdfs, cur_mode, cur, output_dir, result,
                   sorted_orders, hq_todo>>
    /\ UNCHANGED batchVars /\ UNCHANGED <<gvars, fvars>>

\* `for order in all_orders: order['source_pdf'].close()` and the return.
CloseAndReturn ==
    /\ pc = "close"
    /\ open_pdfs' = open_pdfs \ {all_orders[k].source_pdf : k \in 1..Len(all_orders)}
    /\ result' = [success |-> TRUE,
                  total_orders |-> total_orders,
                  duplicate_orders |-> Cardinality(duplicate_tracking_numbers),
                  duplicate_details |-> duplicate_details,
                  multi_slip_orders |-> multi_slip_orders,
                  max_slips_per_order |-> max_slips_per_order]
    /\ pc' = "done"
    /\ UNCHANGED <<pdf_files, opened, cur_mode, cur, output_dir>>
    /\ UNCHANGED batchVars /\ UNCHANGED outVars /\ UNCHANGED <<gvars, fvars>>

Next ==
    \/ NoPdfFiles
    \/ MakeOutputDir
    \/ OpenPdf
    \/ OpenPdfFails
    \/ ScanFails
    \/ ProcessGroup
    \/ ProcessPair
    \/ EndPdf
    \/ SortOrders
    \/ WriteHighQtySku
    \/ WriteWarehouse
    \/ WritePackingroom
    \/ CloseAndReturn

\* process_pdfs called on the input folder `batch`.
InitWith(batch) ==
    /\ pc = "start"
    /\ pdf_files = batch
    /\ opened = 0
    /\ open_pdfs = {}
    /\ cur_mode = "none"
    /\ cur = <<>>
    /\ all_orders = <<>>
    /\ all_tracking_numbers = {}
    /\ duplicate_tracking_numbers = {}
    /\ duplicate_details = <<>>
    /\ total_orders = 0
    /\ multi_slip_orders = 0
    /\ max_slips_per_order = 1
    /\ sorted_orders = EmptyBuckets
    /\ hq_todo = <<>>
    /\ page_number = <<>>
    /\ output_dir = FALSE
    /\ saved = <<>>
    /\ result = <<>>

\* No scan is running on document `doc`.
GroupIdle(doc) ==
    /\ pdf_document = doc
    /\ g_pc = "idle"
    /\ g_i = 0
    /\ groups = <<>>
    /\ calls = 0
    /\ first_groups = <<>>
    /\ first_document = doc

\* No function is called alone.
FnIdle ==
    /\ fn_pc = "idle"
    /\ fn_in = <<>>
    /\ fn_out = <<>>

NextGroup ==
    \/ CallGroup /\ UNCHANGED <<pvars, fvars>>
    \/ ScanLabel /\ UNCHANGED <<pvars, fvars>>
    \/ SkipOrphan /\ UNCHANGED <<pvars, fvars>>
    \/ ReturnGroups /\ UNCHANGED <<pvars, fvars>>

(***************************************************************************)
(* The input folders explored                                              *)
(***************************************************************************)

\* The longest free part of a sort batch.
MaxFree == 2

\* The most documents of a tracking batch, and the most groups in all of them.
MaxDocs == 2

MaxClusters == 3

SeqsUpTo(S, n) == UNION {[1..m -> S] : m \in 0..n}

Opt(S) == {<<>>} \cup {<<x>> : x \in S}

RunOf(c, n) == [k \in 1..n |-> c]

Cluster(items, qt, hz, oid, trk, slips) ==
    [items |-> items, qty_total |-> qt, is_hazmat |-> hz, order_id |-> oid,
     tracking_number |-> trk, num_packing_slips |-> slips]

Doc(mode, clusters) == [mode |-> mode, clusters |-> clusters]

\* What a slip can yield: no item, one item, two items in either order.
SortItems ==
    {<<>>, <<Item("T1", 1)>>, <<Item("T1", 2)>>, <<Item("T2", 1)>>,
     <<Item("T1", 1), Item("T2", 1)>>, <<Item("T2", 1), Item("T1", 1)>>}

\* Orders that differ in items, declared total and hazmat flag only.
SortClusters ==
    {Cluster(it, qt, hz, None, None, 1) :
        it \in SortItems, qt \in 1..2, hz \in BOOLEAN}
    \cup {Cluster(<<>>, 0, hz, None, None, 1) : hz \in BOOLEAN}

Single(s, q, qt, hz) == Cluster(<<Item(s, q)>>, qt, hz, None, None, 1)

\* The orders repeated in runs: single-item orders with qty_total = 1.
RunClusters ==
    {Single("T1", 1, 1, FALSE), Single("T1", 1, 1, TRUE),
     Single("T1", 2, 1, FALSE), Single("T2", 1, 1, FALSE)}

\* The orders put next to a run.
KeyClusters ==
    RunClusters \cup
    {Single("T1", 1, 2, FALSE), Single("T2", 1, 1, TRUE),
     Cluster(<<Item("T1", 1), Item("T2", 1)>>, 2, TRUE, None, None, 2)}

\* One document of groups; an empty scan result takes the fallback path.
OneDoc(clusters) ==
    IF clusters = <<>> THEN <<Doc("pair", <<>>)>>
    ELSE <<Doc("multi_slip", clusters)>>

\* The batches of at most n orders of any kind, on either path.
FreeBatches(n) ==
    {OneDoc(f) : f \in SeqsUpTo(SortClusters, n)}
    \cup {<<Doc("pair", f)>> : f \in SeqsUpTo(SortClusters, 1)}
    \cup {<<>>}

\* A run around the warehouse threshold between two orders.
WarehouseBatches ==
    {OneDoc(f1 \o RunOf(a, n) \o f2) :
        f1 \in Opt(SortClusters), a \in RunClusters,
        n \in {WAREHOUSE_MIN - 1, WAREHOUSE_MIN}, f2 \in Opt(KeyClusters)}

\* Two runs at and above the warehouse threshold.
TwoRunBatches ==
    {OneDoc(RunOf(a, n) \o RunOf(b, m)) :
        a \in RunClusters, n \in {WAREHOUSE_MIN, WAREHOUSE_MIN + 1},
        b \in RunClusters, m \in {WAREHOUSE_MIN, WAREHOUSE_MIN + 1}}

\* A run around the high-qty threshold, after an order and before a tail.
HighQtyBatches ==
    {OneDoc(f1 \o RunOf(a, n) \o t) :
        f1 \in Opt(KeyClusters),
        a \in {Single("T1", 1, 1, FALSE), Single("T1", 1, 1, TRUE)},
        n \in {HIGH_QTY_MIN - 1, HIGH_QTY_MIN},
        t \in {<<>>, <<Single("T1", 1, 1, TRUE)>>,
               RunOf(Single("T2", 1, 1, FALSE), WAREHOUSE_MIN)}}
    \cup {OneDoc(RunOf(Single("T1", 1, 1, FALSE), HIGH_QTY_MIN)
                 \o RunOf(Single("T2", 1, 1, TRUE), HIGH_QTY_MIN))}

\* A hazmat run and a ground run at the warehouse threshold, then two orders
\* for the packing room.
MixedBatches ==
    {OneDoc(RunOf(Single("T1", 1, 1, TRUE), WAREHOUSE_MIN)
            \o RunOf(Single("T2", 1, 1, FALSE), WAREHOUSE_MIN) \o <<c1, c2>>) :
        c1, c2 \in {Single("T1", 2, 2, TRUE), Single("T2", 2, 2, FALSE),
                    Cluster(<<Item("T1", 1), Item("T2", 1)>>, 2, FALSE, None, None, 1)}}

\* A run of orders of two packing slips around the warehouse threshold,
\* before a run of another sku.
TwoSlipBatches ==
    {OneDoc(RunOf(Cluster(<<Item("T1", 1)>>, 1, hz, None, None, 2), n)
            \o RunOf(Single("T2", 1, 1, FALSE), WAREHOUSE_MIN)) :
        hz \in BOOLEAN, n \in {WAREHOUSE_MIN - 1, WAREHOUSE_MIN + 1}}

\* The batches sorted: free batches of at most n orders, and the runs.
SortBatches(n) ==
    FreeBatches(n) \cup WarehouseBatches \cup TwoRunBatches \cup HighQtyBatches
    \cup MixedBatches \cup TwoSlipBatches

\* The groups of the tracking batches: a tracking number or none, an order
\* id or none.
TrackClusters ==
    {Cluster(<<Item("T1", 1)>>, 1, FALSE, "111", "1Z999", 1),
     Cluster(<<Item("T1", 1), Item("T2", 2)>>, 3, TRUE, "222", "1Z999", 2),
     Cluster(<<>>, 0, FALSE, None, "1Z111", 1),
     Cluster(<<Item("T1", 1)>>, 1, FALSE, "111", None, 1),
     Cluster(<<Item("T1", 2)>>, 2, TRUE, None, None, 3)}

\* The documents with at most c groups: a scan that finds groups finds at
\* least one, and the fallback path has any number of pairs.
DocsUpTo(c) ==
    {Doc("multi_slip", f) : f \in SeqsUpTo(TrackClusters, c) \ {<<>>}}
    \cup {Doc("pair", [k \in 1..Len(f) |-> [f[k] EXCEPT !.num_packing_slips = 1]]) :
            f \in SeqsUpTo(TrackClusters, c)}

\* The folders of at most d documents with at most c groups in all.
RECURSIVE BatchesOf(_, _)
BatchesOf(d, c) ==
    IF d = 0 THEN {<<>>}
    ELSE {<<>>} \cup
         UNION {{<<doc>> \o rest : rest \in BatchesOf(d - 1, c - Len(doc.clusters))} :
                    doc \in DocsUpTo(c)}

\* Runs of one order without and with a tracking number.
TrackRunBatches ==
    {OneDoc(RunOf(c, n)) :
        c \in {Cluster(<<Item("T1", 1)>>, 1, FALSE, "111", None, 1),
               Cluster(<<Item("T1", 1)>>, 1, FALSE, "111", "1Z999", 1)},
        n \in {WAREHOUSE_MIN, HIGH_QTY_MIN}}

\* The batches tracked: at most d documents with at most c groups, and the
\* runs.
TrackBatches(d, c) == BatchesOf(d, c) \cup TrackRunBatches

\* The most pages of a scanned document.
MaxPages == 5

\* The page texts of the scanned documents: a label, a packing slip with its
\* product table, a page that only says "Packing Slip", and a page without
\* any indicator.
PageTexts ==
    {{"SHIP FROM:", "Tracking Number:"},
     {"Order ID:", "Product Name", "SKU", "Qty Total:"},
     {"Packing Slip"},
     {}}

Init ==
    /\ \E batch \in TrackBatches(MaxDocs, MaxClusters) : InitWith(batch)
    /\ GroupIdle(<<>>)
    /\ FnIdle

InitSort ==
    /\ \E batch \in SortBatches(MaxFree) : InitWith(batch)
    /\ GroupIdle(<<>>)
    /\ FnIdle

InitGroup ==
    /\ \E doc \in SeqsUpTo(PageTexts, MaxPages) : GroupIdle(doc)
    /\ InitWith(<<>>)
    /\ FnIdle

Spec == Init /\ [][Next]_vars

SpecSort == InitSort /\ [][Next]_vars

SpecGroup == InitGroup /\ [][NextGroup]_vars

(***************************************************************************)
(* Functions called alone                                                  *)
(*                                                                         *)
(* A text is a sequence of characters (strings of length 1).               *)
(***************************************************************************)

\* str.lower() on the characters of the model.
char_lower(c) ==
    CASE c = "D" -> "d"
      [] c = "E" -> "e"
      [] c = "X" -> "x"
      [] OTHER -> c

\* A lower() that changes nothing.
str_lower_Identity(s) == s

\* s.lower()
str_lower(s) == [k \in 1..Len(s) |-> char_lower(s[k])]

\* `sub in s` on strings.
str_in(sub, s) ==
    \E i \in 0..(Len(s) - Len(sub)) : SubSeq(s, i + 1, i + Len(sub)) = sub

\* any(keyword.lower() in page_text.lower() for keyword in hazmat_keywords)
any_keyword_in(page_text, hazmat_keywords) ==
    \E n \in 1..Len(hazmat_keywords) :
        str_in(str_lower(hazmat_keywords[n]), str_lower(page_text))

\* is_hazmat of the multi-slip path: False, then True as soon as a packing
\* slip of the group has a keyword.
hazmat_of_group(packing_slips, hazmat_keywords) ==
    \E i \in 1..Len(packing_slips) :
        any_keyword_in(packing_slips[i], hazmat_keywords)

\* is_hazmat of the fallback path: page_text is the text of page i + 1, the
\* packing slip of the pair.
hazmat_of_pair(label_text, page_text, hazmat_keywords) ==
    any_keyword_in(page_text, hazmat_keywords)

\* The hazmat check of one group of the multi-slip path.
HazmatOfGroup ==
    /\ fn_pc = "call" /\ fn_in.fn = "is_hazmat" /\ fn_in.mode = "multi_slip"
    /\ fn_out' = hazmat_of_group(fn_in.packing_slips, fn_in.hazmat_keywords)
    /\ fn_pc' = "returned"
    /\ UNCHANGED <<fn_in, pvars, gvars>>

\* The hazmat check of one pair of the fallback path.
HazmatOfPair ==
    /\ fn_pc = "call" /\ fn_in.fn = "is_hazmat" /\ fn_in.mode = "pair"
    /\ fn_out' = hazmat_of_pair(fn_in.label_text, fn_in.packing_slips[1],
                                fn_in.hazmat_keywords)
    /\ fn_pc' = "returned"
    /\ UNCHANGED <<fn_in, pvars, gvars>>

\* The function of fn_in is called.
FnCall(in) ==
    /\ fn_pc = "call"
    /\ fn_in = in
    /\ fn_out = <<>>

\* The longest page text of a hazmat check.
MaxText == 2

\* The characters of the page texts and keywords.
Chars == {"d", "D", "e", "x"}

\* The keywords configured: any list of these, in this order.
Keywords == <<<<"d", "e">>, <<"D">>, <<"E", "x">>>>

KeywordLists ==
    {SelectSeq(Keywords, LAMBDA kw : kw \in S) :
        S \in SUBSET {Keywords[k] : k \in 1..Len(Keywords)}}

\* The label texts of a hazmat check.
LabelTexts == {<<>>, <<"d", "e">>, <<"x">>}

\* The hazmat checks on page texts of at most n characters: groups of one
\* or two packing slips, and pairs.
HazmatCalls(n) ==
    {[fn |-> "is_hazmat", mode |-> "multi_slip", label_text |-> l,
      packing_slips |-> s, hazmat_keywords |-> k] :
        l \in LabelTexts, s \in SeqsUpTo(SeqsUpTo(Chars, n), 2) \ {<<>>},
        k \in KeywordLists}
    \cup
    {[fn |-> "is_hazmat", mode |-> "pair", label_text |-> l,
      packing_slips |-> <<s>>, hazmat_keywords |-> k] :
        l \in LabelTexts, s \in SeqsUpTo(Chars, n), k \in KeywordLists}

InitHazmat ==
    /\ \E in \in HazmatCalls(MaxText) : FnCall(in)
    /\ InitWith(<<>>)
    /\ GroupIdle(<<>>)

NextHazmat ==
    \/ HazmatOfGroup
    \/ HazmatOfPair

SpecHazmat == InitHazmat /\ [][NextHazmat]_vars

(***************************************************************************)
(* The page ranges of create_warehouse_picklist_excel                      *)
(***************************************************************************)

DecimalDigits == <<"0", "1", "2", "3", "4", "5", "6", "7", "8", "9">>

\* str(n) for n >= 0.
RECURSIVE int_str(_)
int_str(n) ==
    IF n < 10 THEN DecimalDigits[n + 1]
    ELSE int_str(n \div 10) \o DecimalDigits[(n % 10) + 1]

\* str(start) or f"{start}-{prev}"
range_text(start, prev) ==
    IF start = prev THEN int_str(start)
    ELSE int_str(start) \o "-" \o int_str(prev)

\* ", ".join(page_ranges)
RECURSIVE str_join(_)
str_join(page_ranges) ==
    IF page_ranges = <<>> THEN ""
    ELSE IF Len(page_ranges) = 1 THEN page_ranges[1]
    ELSE page_ranges[1] \o ", " \o str_join(Tail(page_ranges))

\* `for i in range(1, len(pages))` from index i on (pages[i] of the code is
\* pages[i + 1] here), then the last range.
RECURSIVE page_ranges_loop(_, _, _, _, _)
page_ranges_loop(pages, i, start, prev, page_ranges) ==
    IF i >= Len(pages)
    THEN Append(page_ranges, range_text(start, prev))
    ELSE IF pages[i + 1] # prev + 1
    THEN page_ranges_loop(pages, i + 1, pages[i + 1], pages[i + 1],
                          Append(page_ranges, range_text(start, prev)))
    ELSE page_ranges_loop(pages, i + 1, start, pages[i + 1], page_ranges)

\* A compression that leaves out the last range.
page_text_of_NoLastRange(data_pages) ==
    LET pages == list_sort(data_pages, [x \in Range(data_pages) |-> x])
        all == page_ranges_loop(pages, 1, pages[1], pages[1], <<>>)
    IN  IF pages # <<>> THEN str_join(SubSeq(all, 1, Len(all) - 1)) ELSE ""

\* pages = sorted(data['pages']) ... page_text
page_text_of(data_pages) ==
    LET pages == list_sort(data_pages, [x \in Range(data_pages) |-> x])
    IN  IF pages # <<>>
        THEN str_join(page_ranges_loop(pages, 1, pages[1], pages[1], <<>>))
        ELSE ""

\* The page text of one row of the pick list.
CompressPages ==
    /\ fn_pc = "call" /\ fn_in.fn = "page_text"
    /\ fn_out' = page_text_of(fn_in.pages)
    /\ fn_pc' = "returned"
    /\ UNCHANGED <<fn_in, pvars, gvars>>

\* The highest page number of a row.
MaxPageNo == 11

\* Lists of the pages of S: ascending, descending, and the pages at even
\* places after the pages at odd places.
PageLists(S) ==
    LET n == Cardinality(S)
        asc == list_sort([k \in 1..n |-> CHOOSE x \in S :
                              Cardinality({y \in S : y < x}) = k - 1],
                         [x \in S |-> x])
        odd == SelectSeq(Indices(n), LAMBDA k : k % 2 = 1)
        even == SelectSeq(Indices(n), LAMBDA k : k % 2 = 0)
    IN  {asc, Reverse(asc), [k \in 1..n |-> asc[(odd \o even)[k]]]}

\* The rows with pages up to n: a page is listed once, since an order has
\* one page_number and a warehouse order one item.
PageCalls(n) ==
    UNION {{[fn |-> "page_text", pages |-> l] : l \in PageLists(S)} :
              S \in SUBSET (1..n)}

InitCompress ==
    /\ \E in \in PageCalls(MaxPageNo) : FnCall(in)
    /\ InitWith(<<>>)
    /\ GroupIdle(<<>>)

NextCompress == CompressPages

SpecCompress == InitCompress /\ [][NextCompress]_vars

(***************************************************************************)
(* The fingerprints of two orders                                          *)
(***************************************************************************)

\* The fingerprint pass of sort_orders (lines 341-350) on a batch of two
\* orders: their fingerprints and order_fingerprints.
FingerprintPair ==
    /\ fn_pc = "call" /\ fn_in.fn = "fingerprint"
    /\ LET fps == [k \in 1..2 |-> fingerprint(fn_in.orders[k])]
       IN  fn_out' = [fps |-> fps, order_fingerprints |-> order_fingerprints(fps)]
    /\ fn_pc' = "returned"
    /\ UNCHANGED <<fn_in, pvars, gvars>>

\* The most items of an order fingerprinted.
MaxItems == 3

\* The items of the orders fingerprinted.
FingerprintItems == {Item("T1", 1), Item("T1", 2), Item("T2", 1)}

\* The pairs of orders with at most n items each.
FingerprintCalls(n) ==
    {[fn |-> "fingerprint", orders |-> <<[items |-> a], [items |-> b]>>] :
        a \in SeqsUpTo(FingerprintItems, n), b \in SeqsUpTo(FingerprintItems, n)}

InitFingerprint ==
    /\ \E in \in FingerprintCalls(MaxItems) : FnCall(in)
    /\ InitWith(<<>>)
    /\ GroupIdle(<<>>)

NextFingerprint == FingerprintPair

SpecFingerprint == InitFingerprint /\ [][NextFingerprint]_vars

(***************************************************************************)
(* extract_items                                                           *)
(*                                                                         *)
(* The page content is a sequence of tokens: the words the function looks  *)
(* for (no one of those in the model is part of another within the product *)
(* section), other words, line ends, and the matches of SKU_QTY_PATTERN.   *)
(* A position is the index of a token, 0 standing for the -1 of find.  The *)
(* product_name of an item is left out.                                    *)
(***************************************************************************)

Word(w) == <<"word", w, 0>>

\* A match of (T\d+)\s+(\d+): group(1) and int(group(2)).
Match(sku, qty) == <<"match", sku, qty>>

\* text.find(w, start)
find(text, w, start) ==
    IF \E k \in start..Len(text) : text[k] = Word(w)
    THEN CHOOSE k \in start..Len(text) :
             /\ text[k] = Word(w)
             /\ \A m \in start..(k - 1) : text[m] # Word(w)
    ELSE 0

\* text.strip(): the text without the line ends at its two ends.
str_strip(text) ==
    LET inner == {k \in 1..Len(text) : text[k] # Word("\n")}
    IN  IF inner = {} THEN <<>>
        ELSE SubSeq(text, CHOOSE k \in inner : \A m \in inner : k <= m,
                          CHOOSE k \in inner : \A m \in inner : m <= k)

\* The variation of an item, from the text between the name start and the
\* match: "" when "Default" is in it (the function returns "" for
\* "Default"), the last line otherwise.
variation_of(product_text) ==
    IF Word("Default") \in Range(product_text) THEN <<>>
    ELSE LET stripped == str_strip(product_text)
             ends == {k \in 1..Len(stripped) : stripped[k] = Word("\n")}
             from == IF ends = {} THEN 1
                     ELSE 1 + CHOOSE k \in ends : \A m \in ends : m <= k
         IN  [k \in 1..(Len(stripped) - from + 1) |-> stripped[from + k - 1][2]]

\* An extraction that takes the first match whatever the header.
extract_items_KeepFirst(page_content) ==
    LET product_section_start == find(page_content, "Product Name", 1)
        found == find(page_content, "Qty Total:", Max(product_section_start, 1))
        qty_total_position == IF found = 0 THEN Len(page_content) + 1 ELSE found
        product_section ==
            SubSeq(page_content, product_section_start, qty_total_position - 1)
        sku_qty_matches ==
            SelectSeq(Indices(Len(product_section)),
                      LAMBDA k : product_section[k][1] = "match")
        seller == find(product_section, "Seller SKU", 1)
        header_end == IF seller = 0 THEN 1 ELSE find(product_section, "Qty", seller)
        item(i) ==
            LET name_start == IF i = 1 THEN header_end + 1
                              ELSE sku_qty_matches[i - 1] + 1
                name_end == sku_qty_matches[i]
            IN  [sku |-> product_section[name_end][2],
                 qty |-> product_section[name_end][3],
                 variation |-> variation_of(
                     SubSeq(product_section, name_start, name_end - 1))]
    IN  IF product_section_start = 0 THEN <<>>
        ELSE [i \in 1..Len(sku_qty_matches) |-> item(i)]

\* extract_items(page_content).  With no "Seller SKU" in the section,
\* find("Qty", -1) starts at the last character and finds nothing; and with
\* header_end = -1 the loop goes on to the next match without an item.
extract_items(page_content) ==
    LET product_section_start == find(page_content, "Product Name", 1)
        found == find(page_content, "Qty Total:", Max(product_section_start, 1))
        qty_total_position == IF found = 0 THEN Len(page_content) + 1 ELSE found
        product_section ==
            SubSeq(page_content, product_section_start, qty_total_position - 1)
        sku_qty_matches ==
            SelectSeq(Indices(Len(product_section)),
                      LAMBDA k : product_section[k][1] = "match")
        seller == find(product_section, "Seller SKU", 1)
        header_end == IF seller = 0 THEN 0 ELSE find(product_section, "Qty", seller)
        item(i) ==
            LET name_start == IF i = 1 THEN header_end + 1
                              ELSE sku_qty_matches[i - 1] + 1
                name_end == sku_qty_matches[i]
            IN  [sku |-> product_section[name_end][2],
                 qty |-> product_section[name_end][3],
                 variation |-> variation_of(
                     SubSeq(product_section, name_start, name_end - 1))]
        kept == SelectSeq(Indices(Len(sku_qty_matches)),
                          LAMBDA i : ~(i = 1 /\ header_end = 0))
    IN  IF product_section_start = 0 THEN <<>>
        ELSE [n \in 1..Len(kept) |-> item(kept[n])]

ExtractItems ==
    /\ fn_pc = "call" /\ fn_in.fn = "extract_items"
    /\ fn_out' = extract_items(fn_in.page_content)
    /\ fn_pc' = "returned"
    /\ UNCHANGED <<fn_in, pvars, gvars>>

\* The most tokens between the header and the end of the product listing.
MaxBody == 4

\* What comes before the product listing, its header, and what ends it.
PageHeads == {<<>>, <<Match("T300", 2)>>}

PageHeaders ==
    {<<>>,
     <<Word("Product Name")>>,
     <<Word("Product Name"), Word("SKU"), Word("Qty")>>,
     <<Word("Product Name"), Word("Seller SKU"), Word("Qty")>>,
     <<Word("Product Name"), Word("SKU"), Word("Seller SKU"), Word("Qty")>>,
     <<Word("Product Name"), Word("Qty"), Word("Seller SKU")>>}

PageEnds ==
    {<<>>, <<Word("Qty Total:")>>, <<Word("Qty Total:"), Match("T300", 2)>>}

BodyTokens ==
    {Match("T100", 3), Match("T200", 1), Word("Default"), Word("Soap"), Word("\n")}

\* The page contents with at most n tokens in the product listing.
ExtractCalls(n) ==
    {[fn |-> "extract_items", page_content |-> h \o hd \o b \o e] :
        h \in PageHeads, hd \in PageHeaders, b \in SeqsUpTo(BodyTokens, n),
        e \in PageEnds}

InitExtract ==
    /\ \E in \in ExtractCalls(MaxBody) : FnCall(in)
    /\ InitWith(<<>>)
    /\ GroupIdle(<<>>)

NextExtract == ExtractItems

SpecExtract == InitExtract /\ [][NextExtract]_vars

(***************************************************************************)
(* Properties of sort_orders (checked under SpecSort)                      *)
(***************************************************************************)

LeafNames ==
    <<"warehouse_hazmat", "warehouse_ground",
      "packingroom_hazmat_single_item", "packingroom_hazmat_single_sku",
      "packingroom_hazmat_multi_sku", "packingroom_ground_single_item",
      "packingroom_ground_single_sku", "packingroom_ground_multi_sku">>

WarehouseNames == {"warehouse_hazmat", "warehouse_ground"}

\* The eight leaf lists, one after the other.
LeafOrders(so) == warehouse_all(so) \o packingroom_all(so)

\* sort_orders has just returned: sorted_orders is its result, untouched.
Sorted ==
    /\ pc = "high_qty"
    /\ Len(hq_todo) = Cardinality(high_qty_keys(all_orders))

\* sort_orders has returned, and process_pdfs may have gone on.
AfterSort == pc \in {"high_qty", "packingroom", "close", "done"} /\ output_dir

InHighQtyGroup(k) ==
    \E s \in SkuSet : k \in Range(sorted_orders.high_qty_orders[s])

\* Order k has one item, qty_total = 1, and sku s.
CountedFor(k, s) ==
    /\ Len(all_orders[k].items) = 1
    /\ all_orders[k].qty_total = 1
    /\ all_orders[k].items[1].sku = s

\* C1: after sort_orders, every order of the batch that is in no high-qty
\* group occurs exactly once in the eight leaf buckets taken together (so in
\* exactly one of them, once): none is lost, none is duplicated.
C1_LeafPartition ==
    Sorted =>
        LET leaf == LeafOrders(sorted_orders)
        IN  \A k \in 1..Len(all_orders) :
                ~InHighQtyGroup(k) => Occurrences(leaf, k) = 1

\* C1 happens: a batch with a high-qty group, warehouse orders and
\* packing-room orders has been sorted.
C1_Witness ==
    /\ Sorted
    /\ \E s \in SkuSet : sorted_orders.high_qty_orders[s] # <<>>
    /\ warehouse_all(sorted_orders) # <<>>
    /\ packingroom_all(sorted_orders) # <<>>

\* C2: for every sku counted HIGH_QTY_MIN times or more, every single-item
\* qty_total = 1 order of that sku is in the sku's high-qty group and in no
\* leaf bucket.
C2_HighQtyExtracted ==
    Sorted =>
        LET leaf == LeafOrders(sorted_orders)
        IN  \A s \in high_qty_keys(all_orders) :
                \A k \in 1..Len(all_orders) :
                    CountedFor(k, s) =>
                        /\ k \in Range(sorted_orders.high_qty_orders[s])
                        /\ Occurrences(leaf, k) = 0

\* C3: after sort_orders, and through the rest of process_pdfs, no order in
\* warehouse hazmat or warehouse ground has an item of a high-qty sku.
C3_WarehouseNoHighQty ==
    AfterSort =>
        LET high == high_qty_keys(all_orders)
        IN  \A k \in Range(warehouse_all(sorted_orders)) :
                \A m \in 1..Len(all_orders[k].items) :
                    all_orders[k].items[m].sku \notin high

\* C3 happens: the batch has a high-qty sku and warehouse orders, and the
\* high-qty files and the warehouse file have been written.
C3_Witness ==
    /\ pc = "packingroom"
    /\ high_qty_keys(all_orders) # {}
    /\ warehouse_all(sorted_orders) # <<>>
    /\ \E f \in Range(saved) : f.name = "sku"

\* C4: every order with one item, qty_total = 1 and a sku counted at least
\* WAREHOUSE_MIN and fewer than HIGH_QTY_MIN times is in the warehouse bucket
\* of its own is_hazmat; every order with one item of such a sku and
\* qty_total = 2 is in a packing-room single_sku bucket.
C4_WarehouseRouting ==
    Sorted =>
        LET occ == sku_occurrences(all_orders)
            so == sorted_orders
        IN  \A k \in 1..Len(all_orders) :
                LET o == all_orders[k]
                IN  (Len(o.items) = 1
                     /\ occ[o.items[1].sku] >= WAREHOUSE_MIN
                     /\ occ[o.items[1].sku] < HIGH_QTY_MIN) =>
                        /\ o.qty_total = 1 =>
                              k \in Range(IF o.is_hazmat THEN so.warehouse_hazmat
                                          ELSE so.warehouse_ground)
                        /\ o.qty_total = 2 =>
                              k \in Range(so.packingroom_hazmat_single_sku)
                                    \cup Range(so.packingroom_ground_single_sku)

\* The ranking key of order k in the leaf bucket named b.
RankKey(b, k, occ, counts, fps) ==
    IF b \in WarehouseNames THEN occ[all_orders[k].items[1].sku]
    ELSE counts[fps[k]]

\* C5 as stated: in every leaf bucket, two orders with equal ranking keys
\* are in the order they had in the batch.
C5_TiesKeepInputOrder ==
    Sorted =>
        LET fps == Table([k \in 1..Len(all_orders) |-> fingerprint(all_orders[k])])
            counts == fingerprint_counts(fps)
            occ == sku_occurrences(all_orders)
        IN  \A n \in 1..Len(LeafNames) :
                LET b == LeafNames[n]
                    lst == sorted_orders[b]
                IN  \A p, q \in 1..Len(lst) :
                        (p < q /\ RankKey(b, lst[p], occ, counts, fps)
                                    = RankKey(b, lst[q], occ, counts, fps))
                            => lst[p] < lst[q]

\* C5, amended: in every leaf bucket, two orders with equal ranking keys
\* are in the order in which the loop appended them: by the batch position
\* of the first order of their fingerprint group, and within one group by
\* their own batch position.
C5_TiesKeepAppendOrder ==
    Sorted =>
        LET fps == Table([k \in 1..Len(all_orders) |-> fingerprint(all_orders[k])])
            ofp == order_fingerprints(fps)
            counts == fingerprint_counts(fps)
            occ == sku_occurrences(all_orders)
        IN  \A n \in 1..Len(LeafNames) :
                LET b == LeafNames[n]
                    lst == sorted_orders[b]
                IN  \A p, q \in 1..Len(lst) :
                        (p < q /\ RankKey(b, lst[p], occ, counts, fps)
                                    = RankKey(b, lst[q], occ, counts, fps))
                            => \/ ofp[fps[lst[p]]][1] < ofp[fps[lst[q]]][1]
                               \/ /\ fps[lst[p]] = fps[lst[q]]
                                  /\ lst[p] < lst[q]

\* C5 happens: a sorted leaf bucket holds two orders of different
\* fingerprint groups with equal ranking keys, the later of the batch first.
C5_Witness ==
    /\ Sorted
    /\ LET fps == Table([k \in 1..Len(all_orders) |-> fingerprint(all_orders[k])])
           counts == fingerprint_counts(fps)
           occ == sku_occurrences(all_orders)
       IN  \E n \in 1..Len(LeafNames) :
               LET b == LeafNames[n]
                   lst == sorted_orders[b]
               IN  \E p, q \in 1..Len(lst) :
                       /\ p < q /\ lst[p] > lst[q]
                       /\ fps[lst[p]] # fps[lst[q]]
                       /\ RankKey(b, lst[p], occ, counts, fps)
                              = RankKey(b, lst[q], occ, counts, fps)

(***************************************************************************)
(* Properties of group_label_with_packing_slips (checked under SpecGroup)  *)
(***************************************************************************)

\* Page i (from 0) of doc is a label / a packing slip.
IsLabel(doc, i) == detect_page_type(doc[i + 1]) = "label"

IsSlip(doc, i) == detect_page_type(doc[i + 1]) = "packing_slip"

\* The packing slips directly after page i: the pages j > i with nothing
\* but packing slips from i + 1 to j, ascending.
SlipsAfter(doc, i) ==
    LET run == {j \in (i + 1)..(Len(doc) - 1) :
                    \A m \in (i + 1)..j : IsSlip(doc, m)}
    IN  [k \in 1..Cardinality(run) |-> i + k]

\* One group per label that has a packing slip right after it, in page order.
ExpectedGroups(doc) ==
    LET starts == SelectSeq([k \in 1..Len(doc) |-> k - 1],
                      LAMBDA i : IsLabel(doc, i) /\ SlipsAfter(doc, i) # <<>>)
    IN  [n \in 1..Len(starts) |->
            [label_index |-> starts[n],
             packing_slip_indices |-> SlipsAfter(doc, starts[n])]]

\* C6: what the scan returns is exactly one group per label page that is
\* directly followed by a packing slip, with that label and the maximal run
\* of packing slips after it, in page order; a label without a slip after it
\* and a slip outside such a run give no group.
C6_GroupsAreLabelRuns ==
    g_pc = "returned" => groups = ExpectedGroups(pdf_document)

\* C6 happens: the scan of [Label, Slip, Slip, Label, Slip] has returned
\* (0, [1, 2]) and (3, [4]).
C6_Witness ==
    /\ g_pc = "returned"
    /\ Len(pdf_document) = 5
    /\ IsLabel(pdf_document, 0) /\ IsSlip(pdf_document, 1)
    /\ IsSlip(pdf_document, 2) /\ IsLabel(pdf_document, 3)
    /\ IsSlip(pdf_document, 4)
    /\ groups = <<[label_index |-> 0, packing_slip_indices |-> <<1, 2>>],
                  [label_index |-> 3, packing_slip_indices |-> <<4>>]>>

LaterWithSameTracking ==
    SelectSeq(Indices(Len(all_orders)), LAMBDA k :
        /\ all_orders[k].tracking_number # None
        /\ \E m \in 1..(k - 1) :
               all_orders[m].tracking_number = all_orders[k].tracking_number)

\* 'Tracking: X, Order: Y' for order k; Y reads None without an order id.
DetailOf(k) ==
    "Tracking: " \o all_orders[k].tracking_number \o ", Order: "
    \o (IF all_orders[k].order_id = None THEN "None" ELSE all_orders[k].order_id)

\* C8: the duplicates log has exactly one line per order that carries a
\* tracking number an earlier order of the batch carries, in batch order,
\* and the line reads 'Tracking: X, Order: Y' with X that tracking number
\* and Y the order id of that order; the duplicates set holds exactly the
\* tracking numbers of those orders.  The first order of a tracking number
\* has no line, and a tracking number seen once is not in the set.
C8_DuplicatesFlagged ==
    LET later == LaterWithSameTracking
    IN  /\ duplicate_details = [n \in 1..Len(later) |-> DetailOf(later[n])]
        /\ duplicate_tracking_numbers =
               {all_orders[later[n]].tracking_number : n \in 1..Len(later)}

\* C8 happens: three orders of two documents carry one tracking number, and
\* the batch is done with two lines in the log.
C8_Witness ==
    /\ pc = "done"
    /\ Len(duplicate_details) = 2
    /\ \E k, m, n \in 1..Len(all_orders) :
           /\ k < m /\ m < n
           /\ all_orders[k].tracking_number # None
           /\ all_orders[k].tracking_number = all_orders[m].tracking_number
           /\ all_orders[m].tracking_number = all_orders[n].tracking_number
           /\ all_orders[k].source_pdf # all_orders[n].source_pdf
           /\ all_orders[m].order_id # None

\* C9: when process_pdfs returns, total_orders is the number of distinct
\* tracking numbers seen in the batch.
C9_TotalIsDistinctTracking ==
    (pc = "done" /\ output_dir) =>
        result.total_orders = Cardinality(all_tracking_numbers)

\* In how many places of the saved documents order k is.
EmittedTimes(k) ==
    Cardinality({fp \in UNION {{<<f, p>> : p \in 1..Len(saved[f].orders)} :
                                  f \in 1..Len(saved)} :
                    saved[fp[1]].orders[fp[2]] = k})

\* An iteration of either path on a group without a tracking number.
NoTrackingStep ==
    /\ pc = "in_pdf" /\ cur # <<>>
    /\ Head(cur).tracking_number = None
    /\ cur' = Tail(cur)

\* C10: the iteration on an order without a tracking number leaves
\* total_orders, the seen set, the duplicates set and the duplicates log as
\* they were and appends the order to all_orders; and when process_pdfs has
\* returned, every such order is in exactly one place of the saved documents.
C10_NoTrackingOrder ==
    /\ [][NoTrackingStep =>
            /\ UNCHANGED <<total_orders, all_tracking_numbers,
                           duplicate_tracking_numbers, duplicate_details>>
            /\ Len(all_orders') = Len(all_orders) + 1
            /\ SubSeq(all_orders', 1, Len(all_orders)) = all_orders
            /\ all_orders'[Len(all_orders')].tracking_number = None
            /\ all_orders'[Len(all_orders')].items = Head(cur).items]_vars
    /\ []((pc = "done" /\ output_dir) =>
            \A k \in 1..Len(all_orders) :
                all_orders[k].tracking_number = None => EmittedTimes(k) = 1)

\* C10 happens: a batch with orders with and without a tracking number is
\* done, and an order without one is in a saved document.
C10_Witness ==
    /\ pc = "done" /\ output_dir
    /\ total_orders > 0
    /\ \E k \in 1..Len(all_orders) :
           /\ all_orders[k].tracking_number = None
           /\ EmittedTimes(k) = 1

(***************************************************************************)
(* Properties of the documents of process_pdfs (checked under Spec)        *)
(***************************************************************************)

\* process_pdfs has ended: it returned, or an exception left it.
Exited == pc \in {"done", "raised"}

\* C11: whenever process_pdfs has ended, by a return or by an exception,
\* no source document it opened is still open.
C11_SourcesClosedOnExit ==
    Exited => open_pdfs = {}

\* C12: with no document in the input folder, process_pdfs returns
\* {'success': False} in one step that raises nothing, opens no document,
\* makes no output directory and saves no document.
C12_NoDocuments ==
    [][(pc = "start" /\ pdf_files = <<>>) =>
            /\ pc' = "done"
            /\ result' = [success |-> FALSE]
            /\ opened' = 0 /\ open_pdfs' = {}
            /\ ~output_dir'
            /\ saved' = <<>>]_vars

\* C12 happens: process_pdfs has returned on an empty input folder.
C12_Witness ==
    /\ pc = "done"
    /\ result = [success |-> FALSE]
    /\ opened = 0

\* C13: when opening or reading a source document has raised, process_pdfs
\* has returned no result and no document was saved, whatever was read
\* before.
C13_FailureAbortsBatch ==
    pc = "raised" => (result = <<>> /\ saved = <<>>)

\* C13 happens: a document was read and gave orders, and a later document
\* failed.
C13_Witness ==
    /\ pc = "raised"
    /\ all_orders # <<>>
    /\ pdf_files # <<>>

(***************************************************************************)
(* Properties of the output sequencing (checked under SpecSort)            *)
(***************************************************************************)

\* C14: in every saved document the order emitted in place p carries
\* page_number p, so each document numbers its n orders 1..n in emission
\* order from 1; and once all documents are written every order of the
\* batch is in exactly one place of them, so it was numbered exactly once.
C14_PageNumbers ==
    /\ \A f \in 1..Len(saved) :
           \A p \in 1..Len(saved[f].orders) :
               page_number[saved[f].orders[p]] = p
    /\ (pc \in {"close", "done"} /\ output_dir) =>
           \A k \in 1..Len(all_orders) : EmittedTimes(k) = 1

\* C14 happens: a high-qty document, the warehouse document and the
\* packing-room document are written, and two of them hold several orders.
C14_Witness ==
    /\ pc = "done"
    /\ \E f, g, h \in 1..Len(saved) :
           /\ saved[f].name = "sku" /\ Len(saved[f].orders) > 1
           /\ saved[g].name = "warehouse_labels" /\ Len(saved[g].orders) > 1
           /\ saved[h].name = "packingroom_labels" /\ saved[h].orders # <<>>

(***************************************************************************)
(* Properties of the hazmat check (checked under SpecHazmat)               *)
(***************************************************************************)

\* Keyword kw occurs in text, letter case set aside.
OccursIn(kw, text) ==
    \E i \in 0..(Len(text) - Len(kw)) :
        \A j \in 1..Len(kw) : char_lower(text[i + j]) = char_lower(kw[j])

SomeKeywordIn(text) ==
    \E n \in 1..Len(fn_in.hazmat_keywords) : OccursIn(fn_in.hazmat_keywords[n], text)

HazmatReturned == fn_pc = "returned" /\ fn_in.fn = "is_hazmat"

\* C15 as stated: is_hazmat is true exactly when a configured keyword
\* occurs, letter case set aside, in the text of one of the order's packing
\* slips, or, for an order of the fallback path, in the text of its label.
C15_HazmatFromLabelInFallback ==
    HazmatReturned =>
        fn_out = IF fn_in.mode = "pair" THEN SomeKeywordIn(fn_in.label_text)
                 ELSE \E i \in 1..Len(fn_in.packing_slips) :
                          SomeKeywordIn(fn_in.packing_slips[i])

\* C15, amended: is_hazmat is true exactly when a configured keyword
\* occurs, letter case set aside, in the text of one of the order's packing
\* slips; on the fallback path the order has one packing slip, the second
\* page of the pair, and the text of the label is not looked at.
C15_HazmatFromSlips ==
    HazmatReturned =>
        fn_out = \E i \in 1..Len(fn_in.packing_slips) :
                     SomeKeywordIn(fn_in.packing_slips[i])

\* C15 happens: on the fallback path the label has a keyword and the
\* packing slip has none; the order is not hazmat.
C15_Witness ==
    /\ HazmatReturned /\ fn_in.mode = "pair"
    /\ SomeKeywordIn(fn_in.label_text)
    /\ ~SomeKeywordIn(fn_in.packing_slips[1])
    /\ fn_out = FALSE

(***************************************************************************)
(* Properties of the orders without items (checked under SpecSort)         *)
(***************************************************************************)

NoItems(k) == all_orders[k].items = <<>>

\* The saved document named name holds order k in exactly one place.
EmittedOnceIn(name, k) ==
    /\ EmittedTimes(k) = 1
    /\ \E f \in 1..Len(saved) :
           saved[f].name = name /\ k \in Range(saved[f].orders)

\* C16 as stated: every order without items is placed by sort_orders in
\* packing-room ground multi_sku, and is emitted.
C16_NoItemsInGroundMultiSku ==
    /\ Sorted =>
           \A k \in 1..Len(all_orders) :
               NoItems(k) => k \in Range(sorted_orders.packingroom_ground_multi_sku)
    /\ (pc = "done" /\ output_dir) =>
           \A k \in 1..Len(all_orders) :
               NoItems(k) => EmittedOnceIn("packingroom_labels", k)

\* C16, amended: every order without items is placed by sort_orders in a
\* packing-room multi_sku bucket, the hazmat one when the first order
\* without items of the batch is hazmat and the ground one otherwise, and
\* is emitted once, in the packing-room document.
C16_NoItemsInMultiSku ==
    /\ Sorted =>
           \A k \in 1..Len(all_orders) :
               NoItems(k) =>
                   LET first == CHOOSE m \in 1..k :
                                    NoItems(m) /\ \A n \in 1..(m - 1) : ~NoItems(n)
                   IN  k \in Range(IF all_orders[first].is_hazmat
                                   THEN sorted_orders.packingroom_hazmat_multi_sku
                                   ELSE sorted_orders.packingroom_ground_multi_sku)
    /\ (pc = "done" /\ output_dir) =>
           \A k \in 1..Len(all_orders) :
               NoItems(k) => EmittedOnceIn("packingroom_labels", k)

\* C16 happens: a hazmat order without items and then a ground order
\* without items were sorted into hazmat multi_sku and emitted.
C16_Witness ==
    /\ pc = "done" /\ output_dir
    /\ \E k, m \in 1..Len(all_orders) :
           /\ k < m /\ NoItems(k) /\ NoItems(m)
           /\ all_orders[k].is_hazmat /\ ~all_orders[m].is_hazmat
           /\ {k, m} \subseteq Range(sorted_orders.packingroom_hazmat_multi_sku)
           /\ EmittedOnceIn("packingroom_labels", m)

(***************************************************************************)
(* Properties of the page ranges (checked under SpecCompress)              *)
(***************************************************************************)

\* The maximal runs of consecutive integers of S, as pairs <<a, b>>,
\* ascending.
MaximalRuns(S) ==
    LET firsts == {a \in S : a - 1 \notin S}
        last(a) == CHOOSE b \in S :
                       /\ b >= a /\ b + 1 \notin S
                       /\ \A x \in a..b : x \in S
        nth(k) == CHOOSE a \in firsts : Cardinality({x \in firsts : x < a}) = k - 1
    IN  [k \in 1..Cardinality(firsts) |-> <<nth(k), last(nth(k))>>]

\* The runs written 'a' or 'a-b' and joined by ', ', from run k on.
RECURSIVE RunsText(_, _)
RunsText(runs, k) ==
    IF k > Len(runs) THEN ""
    ELSE (IF runs[k][1] = runs[k][2] THEN int_str(runs[k][1])
          ELSE int_str(runs[k][1]) \o "-" \o int_str(runs[k][2]))
         \o (IF k < Len(runs) THEN ", " ELSE "")
         \o RunsText(runs, k + 1)

\* C17: the page text of a list of distinct page numbers is the list of
\* the maximal runs of consecutive integers of its set, ascending, a run of
\* one page written 'a' and a longer run 'a-b', joined by ', '; no page
\* gives the empty text.  The maximal runs partition the set, so every page
\* is in exactly one range.
C17_PageRanges ==
    (fn_pc = "returned" /\ fn_in.fn = "page_text") =>
        /\ fn_out = RunsText(MaximalRuns(Range(fn_in.pages)), 1)
        /\ fn_in.pages = <<>> => fn_out = ""

\* C17 happens: the pages 1, 2, 3, 5, 6, 8, listed out of order, gave
\* '1-3, 5-6, 8'.
C17_Witness ==
    /\ fn_pc = "returned" /\ fn_in.fn = "page_text"
    /\ Range(fn_in.pages) = {1, 2, 3, 5, 6, 8}
    /\ fn_in.pages # <<1, 2, 3, 5, 6, 8>>
    /\ fn_out = "1-3, 5-6, 8"

(***************************************************************************)
(* Properties of the fingerprints (checked under SpecFingerprint)          *)
(***************************************************************************)

\* The item lists a and b hold every (sku, qty) pair the same number of
\* times.
SameMultiset(a, b) ==
    \A x \in Range(a) \cup Range(b) : Occurrences(a, x) = Occurrences(b, x)

\* C18: two orders have equal fingerprints, and are in the same
\* fingerprint group, exactly when their item lists hold the same multiset
\* of (sku, qty) pairs, in whatever order.
C18_FingerprintIsMultiset ==
    (fn_pc = "returned" /\ fn_in.fn = "fingerprint") =>
        LET same == SameMultiset(fn_in.orders[1].items, fn_in.orders[2].items)
            ofp == fn_out.order_fingerprints
        IN  /\ (fn_out.fps[1] = fn_out.fps[2]) <=> same
            /\ (ofp[fn_out.fps[1]] = <<1, 2>>) <=> same
            /\ (ofp[fn_out.fps[1]] = <<1>> /\ ofp[fn_out.fps[2]] = <<2>>) <=> ~same

\* C18 happens: two orders list the same three items, one of them twice,
\* in different orders, and have one fingerprint.
C18_Witness ==
    /\ fn_pc = "returned" /\ fn_in.fn = "fingerprint"
    /\ Len(fn_in.orders[1].items) = 3
    /\ Cardinality(Range(fn_in.orders[1].items)) = 2
    /\ fn_in.orders[1].items # fn_in.orders[2].items
    /\ SameMultiset(fn_in.orders[1].items, fn_in.orders[2].items)
    /\ fn_out.fps[1] = fn_out.fps[2]

(***************************************************************************)
(* Properties of extract_items (checked under SpecExtract)                 *)
(***************************************************************************)

\* The places of the content that are in the product section: from the
\* first "Product Name" up to the first "Qty Total:" after it, or the end.
ProductSection(content) ==
    LET names == {k \in 1..Len(content) : content[k] = Word("Product Name")}
        first == CHOOSE k \in names : \A m \in names : k <= m
        totals == {k \in first..Len(content) : content[k] = Word("Qty Total:")}
        stop == IF totals = {} THEN Len(content) + 1
                ELSE CHOOSE k \in totals : \A m \in totals : k <= m
    IN  IF names = {} THEN {} ELSE first..(stop - 1)

\* The places of the matches in the product section, ascending.
SectionMatches(content) ==
    SelectSeq(Indices(Len(content)),
              LAMBDA k : k \in ProductSection(content) /\ content[k][1] = "match")

\* C19: extract_items returns one item per match of the sku/qty pattern in
\* the product section, in order of appearance, with the sku and qty
\* matched; and an item whose name span (what is between the match before
\* it and its own match) has "Default" has an empty variation.
C19_OneItemPerMatch ==
    (fn_pc = "returned" /\ fn_in.fn = "extract_items") =>
        LET content == fn_in.page_content
            at == SectionMatches(content)
        IN  /\ Len(fn_out) = Len(at)
            /\ \A i \in 1..Len(at) :
                   /\ fn_out[i].sku = content[at[i]][2]
                   /\ fn_out[i].qty = content[at[i]][3]
                   /\ (i > 1 /\ \E k \in (at[i - 1] + 1)..(at[i] - 1) :
                                    content[k] = Word("Default"))
                          => fn_out[i].variation = <<>>

\* The packing-room lists of one kind, hazmat and ground together.
PackingRoomKind(so, kind) ==
    Range(so["packingroom_hazmat_" \o kind]) \cup Range(so["packingroom_ground_" \o kind])

\* C20: an order routed to the packing room is in the sub-bucket of its own
\* fields: single_item iff it has one item and qty_total = 1, single_sku iff
\* it has one item and qty_total > 1, multi_sku iff it has more than one
\* distinct item or no item.
C20_PackingRoomSubBucket ==
    Sorted =>
        \A k \in Range(packingroom_all(sorted_orders)) :
            LET o == all_orders[k]
                so == sorted_orders
            IN  /\ k \in PackingRoomKind(so, "single_item")
                      <=> (Len(o.items) = 1 /\ o.qty_total = 1)
                /\ k \in PackingRoomKind(so, "single_sku")
                      <=> (Len(o.items) = 1 /\ o.qty_total > 1)
                /\ k \in PackingRoomKind(so, "multi_sku")
                      <=> (Cardinality(Range(o.items)) > 1 \/ o.items = <<>>)

(***************************************************************************)
(* Properties of the order inside and between the buckets (SpecSort)       *)
(***************************************************************************)

\* C21: in the result of sort_orders, each warehouse bucket is ordered by
\* non-increasing sku_occurrences of the order's sku, and each of the six
\* packing-room buckets by non-increasing fingerprint count.
C21_BucketsDescending ==
    Sorted =>
        LET fps == Table([k \in 1..Len(all_orders) |-> fingerprint(all_orders[k])])
            counts == fingerprint_counts(fps)
            occ == sku_occurrences(all_orders)
        IN  \A n \in 1..Len(LeafNames) :
                LET b == LeafNames[n]
                    lst == sorted_orders[b]
                IN  \A p, q \in 1..Len(lst) :
                        p < q => RankKey(b, lst[p], occ, counts, fps)
                                    >= RankKey(b, lst[q], occ, counts, fps)

\* C21 happens: a sorted packing-room bucket holds an order of a more
\* frequent fingerprint before an order that came earlier in the batch.
C21_Witness ==
    /\ Sorted
    /\ LET fps == Table([k \in 1..Len(all_orders) |-> fingerprint(all_orders[k])])
           counts == fingerprint_counts(fps)
           occ == sku_occurrences(all_orders)
           Moved(b) ==
               \E p, q \in 1..Len(sorted_orders[b]) :
                   /\ p < q /\ sorted_orders[b][p] > sorted_orders[b][q]
                   /\ RankKey(b, sorted_orders[b][p], occ, counts, fps)
                          > RankKey(b, sorted_orders[b][q], occ, counts, fps)
       IN  \E n \in 3..Len(LeafNames) : Moved(LeafNames[n])

\* The file saved under the name `name` (at most one is).
SavedAs(name) == {saved[n].orders : n \in {m \in 1..Len(saved) : saved[m].name = name}}

\* Every order of list a has a smaller page number than every order of list b.
NumberedBefore(a, b) ==
    \A k \in Range(a), m \in Range(b) : page_number[k] < page_number[m]

\* The output files have been written.
Written == pc \in {"close", "done"} /\ output_dir

\* C22: the warehouse file holds the hazmat bucket then the ground bucket,
\* and the packing-room file holds hazmat single_item, single_sku, multi_sku
\* then ground single_item, single_sku, multi_sku; in each file every order
\* of an earlier bucket has a smaller page number than every order of a
\* later bucket.
C22_BucketSequence ==
    Written =>
        LET so == sorted_orders
            wh == <<so.warehouse_hazmat, so.warehouse_ground>>
            pr == <<so.packingroom_hazmat_single_item,
                    so.packingroom_hazmat_single_sku,
                    so.packingroom_hazmat_multi_sku,
                    so.packingroom_ground_single_item,
                    so.packingroom_ground_single_sku,
                    so.packingroom_ground_multi_sku>>
        IN  /\ \A f \in SavedAs("warehouse_labels") : f = wh[1] \o wh[2]
            /\ \A f \in SavedAs("packingroom_labels") :
                   f = pr[1] \o pr[2] \o pr[3] \o pr[4] \o pr[5] \o pr[6]
            /\ NumberedBefore(wh[1], wh[2])
            /\ \A i, j \in 1..6 : i < j => NumberedBefore(pr[i], pr[j])

\* C22 happens: both files are written, the warehouse file with hazmat and
\* ground orders, the packing-room file with a ground order that came
\* before a hazmat order in the batch.
C22_Witness ==
    /\ Written
    /\ SavedAs("warehouse_labels") # {} /\ SavedAs("packingroom_labels") # {}
    /\ sorted_orders.warehouse_hazmat # <<>>
    /\ sorted_orders.warehouse_ground # <<>>
    /\ \E k \in Range(sorted_orders.packingroom_ground_multi_sku),
          m \in Range(sorted_orders.packingroom_hazmat_single_sku) : k < m

(***************************************************************************)
(* The orders of one document, by pages                                    *)
(*                                                                         *)
(* process_pdfs scans the document once and takes one of two paths.  An    *)
(* order is given here by its 'page_numbers': the label page and the list  *)
(* of its packing-slip pages.                                              *)
(***************************************************************************)

\* The orders of the multi-slip path: one per group.
group_orders(label_groups) ==
    [n \in 1..Len(label_groups) |->
        <<label_groups[n].label_index, label_groups[n].packing_slip_indices>>]

\* A pairing that makes an order of a last page without a partner.
pair_orders_TrailingPage(i, total_pages, acc) ==
    [k \in 1..((total_pages + 1) \div 2) |->
        <<2 * (k - 1), IF 2 * k - 1 < total_pages THEN <<2 * k - 1>> ELSE <<>>>>]

\* `for i in range(0, total_pages, 2): if i + 1 < total_pages: ...` from i on.
RECURSIVE pair_orders(_, _, _)
pair_orders(i, total_pages, acc) ==
    IF i >= total_pages THEN acc
    ELSE pair_orders(i + 2, total_pages,
                     IF i + 1 < total_pages THEN Append(acc, <<i, <<i + 1>>>>)
                     ELSE acc)

\* label_groups = group_label_with_packing_slips(pdf_document)
ScanDocument == CallGroup /\ calls = 0 /\ fn_pc = "call"

\* `if label_groups:` the loop over the groups.
GroupPath ==
    /\ g_pc = "returned" /\ fn_pc = "call" /\ groups # <<>>
    /\ fn_out' = group_orders(groups)
    /\ fn_pc' = "returned"
    /\ UNCHANGED <<fn_in, pvars, gvars>>

\* `else:` the loop over the pages two by two.
PairPath ==
    /\ g_pc = "returned" /\ fn_pc = "call" /\ groups = <<>>
    /\ fn_out' = pair_orders(0, Len(pdf_document), <<>>)
    /\ fn_pc' = "returned"
    /\ UNCHANGED <<fn_in, pvars, gvars>>

InitPages ==
    /\ \E doc \in SeqsUpTo(PageTexts, MaxPages) : GroupIdle(doc)
    /\ FnCall([fn |-> "document_orders"])
    /\ InitWith(<<>>)

NextPages ==
    \/ ScanDocument /\ UNCHANGED <<pvars, fvars>>
    \/ ScanLabel /\ UNCHANGED <<pvars, fvars>>
    \/ SkipOrphan /\ UNCHANGED <<pvars, fvars>>
    \/ ReturnGroups /\ UNCHANGED <<pvars, fvars>>
    \/ GroupPath
    \/ PairPath

SpecPages == InitPages /\ [][NextPages]_vars

\* The document has been turned into orders.
DocumentDone == fn_pc = "returned" /\ fn_in.fn = "document_orders"

\* C23: when the scan of a document gives no group, its orders are exactly
\* the pairs (label page 2k, slips [2k + 1]) for every k with
\* 2k + 1 < page count, whatever the pages are, so a last page without a
\* partner gives no order; when the scan gives a group, the orders are those
\* of the groups and no pairing is applied.
C23_FallbackPairing ==
    DocumentDone =>
        LET total_pages == Len(pdf_document)
        IN  /\ groups = <<>> =>
                  fn_out = [k \in 1..(total_pages \div 2) |->
                               <<2 * (k - 1), <<2 * (k - 1) + 1>>>>]
            /\ groups # <<>> =>
                  /\ Len(fn_out) = Len(groups)
                  /\ \A n \in 1..Len(groups) :
                         /\ fn_out[n][1] = groups[n].label_index
                         /\ fn_out[n][2] = groups[n].packing_slip_indices

\* C23 happens: a document of five pages that starts with a packing slip and
\* has no label before a slip has given the orders (0, [1]) and (2, [3]).
C23_Witness ==
    /\ DocumentDone
    /\ groups = <<>>
    /\ Len(pdf_document) = 5
    /\ IsSlip(pdf_document, 0) /\ IsLabel(pdf_document, 3)
    /\ fn_out = << <<0, <<1>>>>, <<2, <<3>>>> >>

(***************************************************************************)
(* detect_page_type called alone                                           *)
(***************************************************************************)

DetectPageType ==
    /\ fn_pc = "call" /\ fn_in.fn = "detect_page_type"
    /\ fn_out' = detect_page_type(fn_in.page_text)
    /\ fn_pc' = "returned"
    /\ UNCHANGED <<fn_in, pvars, gvars>>

\* Every text, as the indicators that occur in it.
DetectCalls ==
    {[fn |-> "detect_page_type", page_text |-> text] :
        text \in SUBSET (packing_slip_indicators \cup label_indicators)}

InitDetect ==
    /\ \E in \in DetectCalls : FnCall(in)
    /\ InitWith(<<>>)
    /\ GroupIdle(<<>>)

NextDetect == DetectPageType

SpecDetect == InitDetect /\ [][NextDetect]_vars

\* How many of the indicators of list `indicators` occur in the text.
Present(indicators, page_text) ==
    Cardinality({w \in indicators : w \in page_text})

\* C24: detect_page_type returns packing_slip whenever "Product Name" and
\* "SKU" both occur in the text, even with more label indicators than
\* packing-slip indicators; otherwise it returns packing_slip iff strictly
\* more packing-slip indicators than label indicators occur, and label in
\* every other case, a tie and a text without any indicator included.
C24_PageType ==
    (fn_pc = "returned" /\ fn_in.fn = "detect_page_type") =>
        LET text == fn_in.page_text
            slips == Present(packing_slip_indicators, text)
            labels == Present(label_indicators, text)
        IN  /\ fn_out \in {"packing_slip", "label"}
            /\ ("Product Name" \in text /\ "SKU" \in text) => fn_out = "packing_slip"
            /\ ~("Product Name" \in text /\ "SKU" \in text) =>
                   (fn_out = "packing_slip" <=> slips > labels)
            /\ (slips = labels /\ "Product Name" \notin text) => fn_out = "label"
            /\ text = {} => fn_out = "label"

\* C24 happens: a text with "Product Name", "SKU" and the five label
\* indicators has been found a packing slip.
C24_Witness ==
    /\ fn_pc = "returned" /\ fn_in.fn = "detect_page_type"
    /\ fn_in.page_text = {"Product Name", "SKU"} \cup label_indicators
    /\ fn_out = "packing_slip"

(***************************************************************************)
(* Properties of the label counts of the warehouse file (SpecSort)         *)
(***************************************************************************)

\* The warehouse file has been written (or left out).
WarehouseWritten == pc \in {"packingroom", "close", "done"} /\ output_dir

\* The places in list lst of the orders whose only item has sku s, ascending.
PlacesOf(lst, s) ==
    SelectSeq(Indices(Len(lst)), LAMBDA p :
        /\ Len(all_orders[lst[p]].items) = 1
        /\ all_orders[lst[p]].items[1].sku = s)

\* C25: in the warehouse file, every order whose sku is counted
\* LABEL_COUNT_MIN times or more in the batch (sku_occurrences) has a
\* "SKU (k of total)" stamp on its first slip and on no other slip; per sku,
\* k is 1 on the first order emitted, grows by exactly 1 from one emitted
\* order of the sku to the next, never exceeds total, and is total on the
\* last one.
C25_LabelCounts ==
    WarehouseWritten =>
        \A n \in 1..Len(saved) :
            saved[n].name = "warehouse_labels" =>
                LET lst == saved[n].orders
                    stamps == saved[n].label_counts
                    occ == sku_occurrences(all_orders)
                IN  \A s \in SkuSet :
                        LET at == PlacesOf(lst, s)
                        IN  occ[s] >= LABEL_COUNT_MIN =>
                                \A m \in 1..Len(at) :
                                    /\ stamps[at[m]][1][1] = m
                                    /\ stamps[at[m]][1][1] <= stamps[at[m]][1][2]
                                    /\ m = Len(at) =>
                                           stamps[at[m]][1][1] = stamps[at[m]][1][2]
                                    /\ \A j \in 2..Len(stamps[at[m]]) :
                                           stamps[at[m]][j] = NoStamp

(***************************************************************************)
(* Properties of the packing-room pick list (SpecSort)                     *)
(***************************************************************************)

\* The six packing-room buckets, in the order of the sections.
PackingRoomNames == SubSeq(LeafNames, 3, 8)

\* The units of sku s in the orders of list lst: one element per order
\* place, item place and unit of that item's qty.
UnitsOf(lst, s) ==
    UNION {UNION {{<<p, m, u>> : u \in 1..all_orders[lst[p]].items[m].qty} :
                     m \in {i \in 1..Len(all_orders[lst[p]].items) :
                                all_orders[lst[p]].items[i].sku = s}} :
              p \in 1..Len(lst)}

\* C26: in each of the six sections of the packing-room report there is
\* exactly one row per sku that occurs in an order of that bucket, its
\* quantity is the sum of the item qty of that sku over the orders of that
\* bucket only, and the rows are in descending order of quantity, equal
\* quantities in ascending order of sku.
C26_PickListSections ==
    \A f \in 1..Len(saved) :
        saved[f].name = "packingroom_pick_list" =>
            \A n \in 1..6 :
                LET lst == sorted_orders[PackingRoomNames[n]]
                    rows == saved[f].sections[n]
                IN  /\ \A s \in SkuSet :
                           Cardinality({r \in 1..Len(rows) : rows[r][1] = s})
                               = IF UnitsOf(lst, s) # {} THEN 1 ELSE 0
                    /\ \A r \in 1..Len(rows) :
                           rows[r][2] = Cardinality(UnitsOf(lst, rows[r][1]))
                    /\ \A r, q \in 1..Len(rows) :
                           r < q =>
                               \/ rows[r][2] > rows[q][2]
                               \/ /\ rows[r][2] = rows[q][2]
                                  /\ SkuRank(rows[r][1]) < SkuRank(rows[q][1])

\* C26 happens: the report is written with a section where the second sku
\* comes first for its greater quantity, while orders of another bucket
\* hold that sku too.
C26_Witness ==
    \E f \in 1..Len(saved) :
        /\ saved[f].name = "packingroom_pick_list"
        /\ \E n, o \in 1..6 :
               /\ n # o
               /\ Len(saved[f].sections[n]) = 2
               /\ saved[f].sections[n][1][1] = SKUS[2]
               /\ saved[f].sections[n][1][2] > saved[f].sections[n][2][2]
               /\ \E r \in 1..Len(saved[f].sections[o]) :
                      saved[f].sections[o][r][1] = SKUS[2]

(***************************************************************************)
(* Properties of the fingerprint groups (SpecSort)                         *)
(***************************************************************************)

\* The lists sort_orders returns: the eight leaf buckets and the high-qty
\* groups.
ReturnedLists(so) ==
    {so[LeafNames[n]] : n \in 1..Len(LeafNames)}
    \cup {so.high_qty_orders[s] : s \in SkuSet}

\* The orders idxs are in list lst from place p on, one after the other.
RunAt(lst, p, idxs) ==
    /\ p + Len(idxs) - 1 <= Len(lst)
    /\ \A i \in 1..Len(idxs) : lst[p + i - 1] = idxs[i]

\* C27: all orders of one fingerprint are in the list that holds the first
\* order of the fingerprint, in consecutive places of it and in their batch
\* order, and in no other list.
C27_GroupsStayTogether ==
    Sorted =>
        LET fps == Table([k \in 1..Len(all_orders) |-> fingerprint(all_orders[k])])
            ofp == order_fingerprints(fps)
        IN  \A f \in DOMAIN ofp :
                \A lst \in ReturnedLists(sorted_orders) :
                    IF ofp[f][1] \in Range(lst)
                    THEN \E p \in 1..Len(lst) : RunAt(lst, p, ofp[f])
                    ELSE Range(ofp[f]) \cap Range(lst) = {}

\* C27 happens: two orders of one fingerprint that are apart in the batch
\* are side by side in a sorted bucket, behind orders that came after the
\* first of them.
C27_Witness ==
    /\ Sorted
    /\ LET fps == Table([k \in 1..Len(all_orders) |-> fingerprint(all_orders[k])])
       IN  \E n \in 1..Len(LeafNames) :
               LET lst == sorted_orders[LeafNames[n]]
               IN  \E p \in 2..(Len(lst) - 1) :
                       /\ fps[lst[p]] = fps[lst[p + 1]]
                       /\ lst[p + 1] > lst[p] + 1
                       /\ lst[p - 1] > lst[p]

(***************************************************************************)
(* Properties of the orders of a bucket (SpecSort)                         *)
(***************************************************************************)

HazmatNames ==
    {"warehouse_hazmat", "packingroom_hazmat_single_item",
     "packingroom_hazmat_single_sku", "packingroom_hazmat_multi_sku"}

\* C28: after sort_orders, every order in a hazmat bucket (warehouse hazmat,
\* packing-room hazmat single_item, single_sku, multi_sku) has is_hazmat
\* true, and every order in a ground bucket has is_hazmat false.
C28_BucketsByHazmat ==
    Sorted =>
        \A n \in 1..Len(LeafNames) :
            \A k \in Range(sorted_orders[LeafNames[n]]) :
                all_orders[k].is_hazmat <=> LeafNames[n] \in HazmatNames

\* C29: after sort_orders, every order in a warehouse bucket has exactly one
\* item, qty_total = 1, and a sku counted WAREHOUSE_MIN times or more.
C29_WarehouseOrders ==
    Sorted =>
        \A k \in Range(warehouse_all(sorted_orders)) :
            /\ Len(all_orders[k].items) = 1
            /\ all_orders[k].qty_total = 1
            /\ sku_occurrences(all_orders)[all_orders[k].items[1].sku] >= WAREHOUSE_MIN

\* C30: for each high-qty sku, the group collected by sort_orders has as
\* many orders as the count recorded for the sku (the count of the file name
\* and of the threshold test), and the file written for it holds an order.
C30_HighQtyGroupCount ==
    /\ Sorted =>
           \A s \in high_qty_keys(all_orders) :
               Len(sorted_orders.high_qty_orders[s]) = high_qty_info(all_orders, s).count
    /\ \A f \in 1..Len(saved) :
           saved[f].name = "sku" =>
               (saved[f].orders # <<>> /\ Len(saved[f].orders) = saved[f].count)

=============================================================================
